---- MODULE Spec2Model ----
(***************************************************************************)
(* VR-Racer streaming server: the stereo camera manager, the signaling     *)
(* endpoint, the credential store, the token authority and the recording   *)
(* coordinator, modelled from src/server.py, src/signaling.py and          *)
(* src/Denis_Version/*.py.                                                 *)
(***************************************************************************)
EXTENDS Integers, Sequences, FiniteSets, TLC

VARIABLES
    cm,         \* server.py CameraManager: _vr_clients, camera_left_proc, ...
    cmCalls,    \* number of direct acquire_vr / release_vr calls made so far
    peer,       \* server.py: per POST /offer request, the handler and its pc
    pcs,        \* server.py: the module-level set pcs
    shut,       \* server.py on_shutdown: "running", "closing" or "done"
    shutList,   \* server.py on_shutdown: list(pcs) entries not yet closed
    sig_peer,   \* signaling.py: per POST /offer request, the handler and its pc
    sig_pcs,    \* signaling.py: the module-level set pcs
    sig_shut,   \* signaling.py on_shutdown: "running", "closing" or "done"
    sig_coros,  \* signaling.py on_shutdown: pc.close() coroutines not yet run
    users,      \* server.py users.db: the rows of table users, in id order
    next_id,    \* server.py users.db: the next AUTOINCREMENT id
    started,    \* server.py: create_app has run init_db and serves requests
    supplied,   \* per row id, the password as sent by the client in the most
                \* recent successful create or update request carrying one
    ulast,      \* the last credential-store request and its response
    now,        \* server.py: the UTC clock, in ticks of 1/TicksPerSecond s
    pyjwt,      \* the installed PyJWT release's expiry check: see jwt_expired
    issued,     \* the tokens create_token has returned, with their issue time
    alast,      \* the last login / admin-route request and its response
    camera,     \* main_webrtc.py camera: the CameraController's recording state
    current_recording,  \* main_webrtc.py global: None or the recording's info
    gps,        \* main_webrtc.py gps: gps_enabled, is_connected, is_tracking
    recording_lock,     \* main_webrtc.py recording_lock and the start handler
                        \* that holds it between camera.start_recording and return
    rclock,     \* Denis_Version: datetime.now(), in ticks
    rlast,      \* the last recording request and its response
    ractive,    \* the recording begun by the last successful start, on until
                \* stop_recording is next called
    uploaded,   \* sftp_uploader: the recording paths upload_recording has sent
    gpsctl,     \* gps.py: gps_thread_running, the _tracking_loop threads made
                \* and, per point of track_points, the thread that appended it
    conv,       \* camera_stream.py: the arguments of a _camera_worker and the
                \* array shapes of its last loop iteration
    am_users,   \* auth.py accounts.db: the rows of table users
    am_constructed,     \* auth.py: an AuthManager has been constructed
    am_now,     \* auth.py: datetime.now(), in hours
    am_issued,  \* auth.py: per session token drawn, its user and login time
    am_salts,   \* auth.py: number of salts hash_password has drawn
    am_dead,    \* session tokens logged out or found expired by verify_session
    am_last,    \* the last AuthManager call and what it returned
    shared_frame,       \* camera_stream.py: the shared buffer, as two halves
    lock,       \* camera_stream.py: holder of CameraProcess._lock
    worker,     \* camera_stream.py: _camera_worker's position and its frame
    track,      \* per SharedMemoryCameraStream: recv's position, _local_frame
    got,        \* per track: the frames its last two recv calls returned
    camproc,    \* camera_stream.py: CameraProcess.stop's progress
    environ,    \* server.py: the settings present in os.environ at import
    peer_connections,   \* main_webrtc.py: the global set of RTCPeerConnections
    rtc_pc,     \* main_webrtc.py: per RTCPeerConnection made, owner and state
    rtc_last,   \* main_webrtc.py: the last /webrtc request and its answer
    rtc_loop,   \* main_webrtc.py: webrtc_lock, the webrtc_close coroutine and
                \* the callback tasks of the event loop that runs them
    inflight,   \* server.py: the requests suspended at await request.json()
    sftp,       \* sftp_uploader.py: is_connected and upload_file's progress
    mail        \* email_sender.py: _send_email's progress

camVars == <<cm, cmCalls>>
offerVars == <<peer, pcs, shut, shutList>>

sigVars == <<sig_peer, sig_pcs, sig_shut, sig_coros>>

userVars == <<users, next_id, started, supplied, ulast>>

authVars == <<now, pyjwt, issued, alast>>

recVars == <<camera, current_recording, gps, recording_lock, rclock, rlast, ractive,
             uploaded, gpsctl, conv>>

streamVars == <<shared_frame, lock, worker, track, got, camproc>>
rtcVars == <<peer_connections, rtc_pc, rtc_last, rtc_loop>>
extraVars == <<am_users, am_constructed, am_now, am_issued, am_salts, am_dead, am_last,
               streamVars, environ, rtcVars, inflight, sftp, mail>>

vars == <<cm, cmCalls, peer, pcs, shut, shutList,
          sig_peer, sig_pcs, sig_shut, sig_coros,
          users, next_id, started, supplied, ulast,
          now, pyjwt, issued, alast,
          camera, current_recording, gps, recording_lock, rclock, rlast, ractive,
          uploaded, gpsctl, conv,
          am_users, am_constructed, am_now, am_issued, am_salts, am_dead, am_last,
          shared_frame, lock, worker, track, got, camproc, environ,
          peer_connections, rtc_pc, rtc_last, rtc_loop, inflight, sftp, mail>>

None == "None"

(***************************************************************************)
(* Bounds of the model.                                                    *)
(***************************************************************************)
MaxCmCalls == 7
MaxPeers == 2
MaxId == 3
TicksPerSecond == 2
MaxIssueTick == 2
MaxTokens == 1
TicksPerMinute == 2
MaxRecClock == 3
MaxSalts == 4
MaxSessions == 2
MaxAmNow == 3
NumTracks == 2
MaxFrames == 3
MaxInflight == 2
MaxLoops == 3

(***************************************************************************)
(* server.py CameraManager.  camera_left_proc / camera_left_track are      *)
(* None or a live object; constructed / stopped / spurious are history     *)
(* counters of CameraProcess(...) constructions of the left sensor, of     *)
(* camera_left_proc.stop() calls and of release_vr calls made at count 0.  *)
(***************************************************************************)
CameraManager_init ==
    [ vr_clients        |-> 0,
      camera_right_proc |-> "proc",
      camera_left_proc  |-> None,
      camera_left_track |-> None,
      constructed       |-> 0,
      stopped           |-> 0,
      spurious          |-> 0 ]

\* acquire_vr with the CameraProcess constructor succeeding.
acquire_vr(m) ==
    LET m1 == IF m.camera_left_proc = None
              THEN [m EXCEPT !.camera_left_proc  = "proc",
                             !.camera_left_track = "track",
                             !.constructed       = @ + 1]
              ELSE m
    IN  [m1 EXCEPT !.vr_clients = @ + 1]

\* acquire_vr when CameraProcess(...) raises (shared memory or process start
\* fails): the assignment never happens and the count is not incremented.
acquire_vr_raises(m) == m

release_vr_unclamped(m) ==
    LET m1 == [m EXCEPT !.vr_clients = @ - 1]
    IN  IF m1.vr_clients = 0 /\ m1.camera_left_proc # None
        THEN [m1 EXCEPT !.camera_left_proc  = None,
                        !.camera_left_track = None,
                        !.stopped           = @ + 1]
        ELSE m1

release_vr(m) ==
    LET m1 == IF m.vr_clients > 0
              THEN [m EXCEPT !.vr_clients = @ - 1]
              ELSE [m EXCEPT !.spurious = @ + 1]
    IN  IF m1.vr_clients = 0 /\ m1.camera_left_proc # None
        THEN [m1 EXCEPT !.camera_left_proc  = None,
                        !.camera_left_track = None,
                        !.stopped           = @ + 1]
        ELSE m1

stop_all_keeping(m) ==
    LET m1 == IF m.camera_right_proc # None
              THEN [m EXCEPT !.camera_right_proc = None]
              ELSE m
        m2 == IF m1.camera_left_proc # None
              THEN [m1 EXCEPT !.stopped = @ + 1]
              ELSE m1
    IN  [m2 EXCEPT !.camera_left_track = None]

\* stop_all, lines 135-142.
stop_all(m) ==
    LET m1 == IF m.camera_right_proc # None
              THEN [m EXCEPT !.camera_right_proc = None]
              ELSE m
        m2 == IF m1.camera_left_proc # None
              THEN [m1 EXCEPT !.camera_left_proc = None, !.stopped = @ + 1]
              ELSE m1
    IN  [m2 EXCEPT !.camera_left_track = None]

\* get_tracks: the sequence of subscribed tracks, or "raise" (RuntimeError).
get_tracks(m, vr_mode) ==
    IF ~vr_mode THEN <<"right">>
    ELSE IF m.camera_left_track = None THEN "raise"
    ELSE <<"left", "right">>

(***************************************************************************)
(* aiortc RTCPeerConnection as server.py uses it.  connectionState is one  *)
(* of new, connecting, connected, failed, closed.  emit schedules the      *)
(* registered async listener as a task (cbQueued); close() is idempotent,  *)
(* its first call moves the state to closed, emits connectionstatechange   *)
(* and then removes every listener.                                        *)
(***************************************************************************)
Peers == 1..MaxPeers

pc_init ==
    [ hs        |-> "idle",    \* position of the offer coroutine
      status    |-> 0,         \* HTTP status returned, 0 while none
      vr        |-> FALSE,     \* vr_mode
      alloc     |-> FALSE,     \* RTCPeerConnection() was created
      handler   |-> FALSE,     \* on_state_change is registered
      conn      |-> "new",     \* pc.connectionState
      isClosed  |-> FALSE,
      cbQueued  |-> 0,         \* on_state_change tasks scheduled, not started
      cbInClose |-> 0,         \* on_state_change tasks suspended in pc.close()
      acquired  |-> 0,         \* acquire_vr calls completed for this request
      released  |-> 0 ]        \* release_vr calls made for this request

emit(p) == IF p.handler THEN [p EXCEPT !.cbQueued = @ + 1] ELSE p

pc_close(p) ==
    IF p.isClosed THEN p
    ELSE LET p1 == [p EXCEPT !.isClosed = TRUE]
             p2 == IF p1.conn # "closed"
                   THEN emit([p1 EXCEPT !.conn = "closed"])
                   ELSE p1
         IN  [p2 EXCEPT !.handler = FALSE]

Transitions ==
    { <<"new", "connecting">>, <<"connecting", "connected">>,
      <<"connecting", "failed">>, <<"connecting", "closed">>,
      <<"connected", "failed">>, <<"connected", "closed">> }

(***************************************************************************)
(* server.py offer, lines 434-473.  The except block: release_vr when      *)
(* vr_mode is in locals() and true, then 500; the pc is neither closed     *)
(* nor discarded.                                                          *)
(***************************************************************************)
offer_except(i, p, vrInLocals) ==
    /\ peer' = [peer EXCEPT ![i] =
                  [p EXCEPT !.hs = "done", !.status = 500,
                            !.released = IF vrInLocals /\ p.vr THEN @ + 1 ELSE @]]
    /\ cm' = IF vrInLocals /\ p.vr THEN release_vr(cm) ELSE cm

\* Lines 434-460: up to the first suspension inside the try block.
\* body: json FALSE when request.json() raises, sdp FALSE when the key is missing.
OfferBegin(i, authed, body, ctorRaises) ==
    /\ shut = "running"
    /\ peer[i].hs = "idle"
    /\ \A j \in Peers : j < i => peer[j].hs # "idle"
    /\ IF ~authed
       THEN /\ peer' = [peer EXCEPT ![i] = [@ EXCEPT !.hs = "done", !.status = 401]]
            /\ UNCHANGED <<cm, pcs>>
       ELSE IF ~body.json
       THEN /\ offer_except(i, peer[i], FALSE)
            /\ UNCHANGED pcs
       ELSE IF ~body.sdp
       THEN /\ offer_except(i, [peer[i] EXCEPT !.vr = body.vr], TRUE)
            /\ UNCHANGED pcs
       ELSE IF body.vr /\ ctorRaises /\ cm.camera_left_proc = None
       THEN /\ offer_except(i, [peer[i] EXCEPT !.vr = body.vr, !.alloc = TRUE], TRUE)
            /\ pcs' = pcs \cup {i}
       ELSE /\ peer' = [peer EXCEPT ![i] =
                          [@ EXCEPT !.hs = "setRemote", !.vr = body.vr,
                                    !.alloc = TRUE, !.handler = TRUE,
                                    !.acquired = IF body.vr THEN 1 ELSE 0]]
            /\ cm' = IF body.vr THEN acquire_vr(cm) ELSE cm
            /\ pcs' = pcs \cup {i}
    /\ UNCHANGED <<shut, shutList>>

\* Lines 460-463: setRemoteDescription returns or raises, get_tracks, addTrack.
OfferSetRemote(i, ok) ==
    /\ peer[i].hs = "setRemote"
    /\ IF ok /\ get_tracks(cm, peer[i].vr) # "raise"
       THEN /\ peer' = [peer EXCEPT ![i] = [@ EXCEPT !.hs = "createAnswer"]]
            /\ UNCHANGED cm
       ELSE offer_except(i, peer[i], TRUE)
    /\ UNCHANGED <<pcs, shut, shutList>>

\* Lines 463-464: createAnswer returns or raises.
OfferCreateAnswer(i, ok) ==
    /\ peer[i].hs = "createAnswer"
    /\ IF ok
       THEN /\ peer' = [peer EXCEPT ![i] = [@ EXCEPT !.hs = "setLocal"]]
            /\ UNCHANGED cm
       ELSE offer_except(i, peer[i], TRUE)
    /\ UNCHANGED <<pcs, shut, shutList>>

\* Lines 464-468: setLocalDescription returns or raises, then the answer.
OfferSetLocal(i, ok) ==
    /\ peer[i].hs = "setLocal"
    /\ IF ok
       THEN /\ peer' = [peer EXCEPT ![i] = [@ EXCEPT !.hs = "done", !.status = 200]]
            /\ UNCHANGED cm
       ELSE offer_except(i, peer[i], TRUE)
    /\ UNCHANGED <<pcs, shut, shutList>>

\* The transport of an answered peer changes connectionState.
TransportEvent(i, s) ==
    /\ peer[i].hs = "done" /\ peer[i].status = 200
    /\ ~peer[i].isClosed
    /\ <<peer[i].conn, s>> \in Transitions
    /\ peer' = [peer EXCEPT ![i] = emit([@ EXCEPT !.conn = s])]
    /\ UNCHANGED <<cm, pcs, shut, shutList>>

\* Lines 453-458 after the awaited close: release_vr, pcs.discard.
on_state_change_tail(i, p) ==
    /\ peer' = [peer EXCEPT ![i] = [p EXCEPT !.released = IF p.vr THEN @ + 1 ELSE @]]
    /\ cm' = IF p.vr THEN release_vr(cm) ELSE cm
    /\ pcs' = pcs \ {i}

\* A scheduled on_state_change task starts: lines 453-455.  A close() of an
\* already closed pc returns without suspending, so the task runs through.
OnStateChangeStart(i) ==
    /\ peer[i].cbQueued > 0
    /\ LET p == [peer[i] EXCEPT !.cbQueued = @ - 1]
       IN  IF p.conn \in {"failed", "closed", "disconnected"}
           THEN IF p.isClosed
                THEN on_state_change_tail(i, p)
                ELSE /\ peer' = [peer EXCEPT ![i] =
                                   [pc_close(p) EXCEPT !.cbInClose = @ + 1]]
                     /\ UNCHANGED <<cm, pcs>>
           ELSE /\ peer' = [peer EXCEPT ![i] = p]
                /\ UNCHANGED <<cm, pcs>>
    /\ UNCHANGED <<shut, shutList>>

\* The awaited pc.close() of a suspended task returns: lines 456-458.
OnStateChangeResume(i) ==
    /\ peer[i].cbInClose > 0
    /\ on_state_change_tail(i, [peer[i] EXCEPT !.cbInClose = @ - 1])
    /\ UNCHANGED <<shut, shutList>>

\* server.py on_shutdown, lines 532-535: stop_all, then list(pcs).
ShutdownBegin ==
    /\ shut = "running"
    /\ cm' = stop_all(cm)
    /\ shut' = "closing"
    /\ shutList' = pcs
    /\ UNCHANGED <<peer, pcs>>

\* Line 536: await pc.close() for the next pc of the list.
ShutdownClose(i) ==
    /\ shut = "closing"
    /\ i \in shutList
    /\ peer' = [peer EXCEPT ![i] = pc_close(@)]
    /\ shutList' = shutList \ {i}
    /\ UNCHANGED <<cm, pcs, shut>>

\* Line 537: pcs.clear().
ShutdownClear ==
    /\ shut = "closing"
    /\ shutList = {}
    /\ pcs' = {}
    /\ shut' = "done"
    /\ UNCHANGED <<cm, peer, shutList>>

OfferInit ==
    /\ peer = [i \in Peers |-> pc_init]
    /\ pcs = {}
    /\ shut = "running"
    /\ shutList = {}

Bodies == [json : BOOLEAN, vr : BOOLEAN, sdp : BOOLEAN]

(***************************************************************************)
(* signaling.py offer, lines 9-30, and on_shutdown, lines 32-36.  No       *)
(* connectionstatechange listener is registered and no exception is        *)
(* caught: a raise leaves the handler with aiohttp's 500.                  *)
(***************************************************************************)
\* Lines 11-21: up to the suspension in setRemoteDescription.
\* camOk FALSE when CameraStream(0) raises.
sig_offer_begin(i, body, camOk) ==
    /\ sig_shut = "running"
    /\ sig_peer[i].hs = "idle"
    /\ \A j \in Peers : j < i => sig_peer[j].hs # "idle"
    /\ IF ~body.json \/ ~body.sdp
       THEN /\ sig_peer' = [sig_peer EXCEPT ![i] =
                              [@ EXCEPT !.hs = "done", !.status = 500]]
            /\ UNCHANGED sig_pcs
       ELSE IF ~camOk
       THEN /\ sig_peer' = [sig_peer EXCEPT ![i] =
                              [@ EXCEPT !.hs = "done", !.status = 500, !.alloc = TRUE]]
            /\ sig_pcs' = sig_pcs \cup {i}
       ELSE /\ sig_peer' = [sig_peer EXCEPT ![i] =
                              [@ EXCEPT !.hs = "setRemote", !.alloc = TRUE]]
            /\ sig_pcs' = sig_pcs \cup {i}
    /\ UNCHANGED <<sig_shut, sig_coros>>

\* Lines 21-30: one awaited call returns or raises.
sig_offer_step(i, ok) ==
    /\ sig_peer[i].hs \in {"setRemote", "createAnswer", "setLocal"}
    /\ sig_peer' = [sig_peer EXCEPT ![i] =
         IF ~ok THEN [@ EXCEPT !.hs = "done", !.status = 500]
         ELSE IF @.hs = "setRemote" THEN [@ EXCEPT !.hs = "createAnswer"]
         ELSE IF @.hs = "createAnswer" THEN [@ EXCEPT !.hs = "setLocal"]
         ELSE [@ EXCEPT !.hs = "done", !.status = 200]]
    /\ UNCHANGED <<sig_pcs, sig_shut, sig_coros>>

sig_transport_event(i, s) ==
    /\ sig_peer[i].hs = "done" /\ sig_peer[i].status = 200
    /\ ~sig_peer[i].isClosed
    /\ <<sig_peer[i].conn, s>> \in Transitions
    /\ sig_peer' = [sig_peer EXCEPT ![i] = emit([@ EXCEPT !.conn = s])]
    /\ UNCHANGED <<sig_pcs, sig_shut, sig_coros>>

\* Line 34: coros = [pc.close() for pc in pcs].
sig_on_shutdown_begin ==
    /\ sig_shut = "running"
    /\ sig_shut' = "closing"
    /\ sig_coros' = sig_pcs
    /\ UNCHANGED <<sig_peer, sig_pcs>>

\* Line 35: asyncio.gather runs one of the close() coroutines.
sig_on_shutdown_close(i) ==
    /\ sig_shut = "closing"
    /\ i \in sig_coros
    /\ sig_peer' = [sig_peer EXCEPT ![i] = pc_close(@)]
    /\ sig_coros' = sig_coros \ {i}
    /\ UNCHANGED <<sig_pcs, sig_shut>>

\* Line 36: pcs.clear().
sig_on_shutdown_clear ==
    /\ sig_shut = "closing"
    /\ sig_coros = {}
    /\ sig_pcs' = {}
    /\ sig_shut' = "done"
    /\ UNCHANGED <<sig_peer, sig_coros>>

SigInit ==
    /\ sig_peer = [i \in Peers |-> pc_init]
    /\ sig_pcs = {}
    /\ sig_shut = "running"
    /\ sig_coros = {}

(***************************************************************************)
(* Strings are sequences of one-character strings, so that str.lower and   *)
(* str.strip are computed character by character.                          *)
(***************************************************************************)
LowerChar(c) ==
    CASE c = "A" -> "a" [] c = "B" -> "b" [] c = "D" -> "d" [] c = "G" -> "g"
      [] OTHER -> c

lower(str) == [k \in DOMAIN str |-> LowerChar(str[k])]

RECURSIVE lstrip(_), rstrip(_)
lstrip(str) ==
    IF str # <<>> /\ Head(str) = " " THEN lstrip(Tail(str)) ELSE str

rstrip(str) ==
    IF str # <<>> /\ str[Len(str)] = " "
    THEN rstrip(SubSeq(str, 1, Len(str) - 1)) ELSE str

strip(str) == rstrip(lstrip(str))

Admin_G == <<"A", "d", "m", "i", "n", "_", "G">>
Admin_D == <<"A", "d", "m", "i", "n", "_", "D">>

(***************************************************************************)
(* server.py credential store, lines 167-374.  hash_pw is SHA-256, taken   *)
(* as injective; Fernet encryption draws a random IV, so the ciphertexts   *)
(* of two rows never coincide: the IV is modelled by the id of the row the *)
(* ciphertext is written to.  decrypt inverts encrypt.                     *)
(***************************************************************************)
hash_pw(password) == <<"sha256", password>>

fernet_encrypt(row_id, name) == [iv |-> row_id, pt |-> name]

fernet_decrypt(ct) == ct.pt

RowIndex(tbl, id) ==
    IF \E k \in DOMAIN tbl : tbl[k].id = id
    THEN CHOOSE k \in DOMAIN tbl : tbl[k].id = id
    ELSE 0

\* INSERT INTO users: refused (IntegrityError) when the ciphertext is stored.
unique_ok(tbl, ct) == \A k \in DOMAIN tbl : tbl[k].username # ct

\* init_db, lines 212-246: seed the admins missing from the decrypted names.
seed_admin(tbl, nid, names, name, pw) ==
    IF pw = <<>> \/ name \in names
    THEN [tbl |-> tbl, next_id |-> nid]
    ELSE [tbl |-> Append(tbl, [id |-> nid,
                               username |-> fernet_encrypt(nid, name),
                               password_hash |-> hash_pw(pw),
                               is_admin |-> 1]),
          next_id |-> nid + 1]

init_db(tbl, nid, pwG, pwD) ==
    LET existing_names == {fernet_decrypt(tbl[k].username) : k \in DOMAIN tbl}
        g == seed_admin(tbl, nid, existing_names, Admin_G, pwG)
    IN  seed_admin(g.tbl, g.next_id, existing_names, Admin_D, pwD)

username_exists_exact(tbl, username) ==
    \E k \in DOMAIN tbl :
        fernet_decrypt(tbl[k].username) = username

username_exists(tbl, username) ==
    \E k \in DOMAIN tbl :
        lower(fernet_decrypt(tbl[k].username)) = lower(username)

create_user(tbl, nid, username, password) ==
    LET enc == fernet_encrypt(nid, username)
    IN  IF username_exists(tbl, username) \/ ~unique_ok(tbl, enc)
        THEN [ret |-> FALSE, tbl |-> tbl, next_id |-> nid]
        ELSE [ret |-> TRUE,
              tbl |-> Append(tbl, [id |-> nid, username |-> enc,
                                   password_hash |-> hash_pw(password),
                                   is_admin |-> 0]),
              next_id |-> nid + 1]

check_user(tbl, username, password) ==
    LET hits == {k \in DOMAIN tbl :
                    /\ fernet_decrypt(tbl[k].username) = username
                    /\ tbl[k].password_hash = hash_pw(password)}
    IN  IF hits = {} THEN [ok |-> FALSE, admin |-> FALSE]
        ELSE LET k == CHOOSE h \in hits : \A h2 \in hits : h <= h2
             IN  [ok |-> TRUE, admin |-> tbl[k].is_admin # 0]

RemoveAt(tbl, k) == SubSeq(tbl, 1, k - 1) \o SubSeq(tbl, k + 1, Len(tbl))

\* Lines 330 and 357: the admin lock, by seeded name or by flag.
admin_locked(row) ==
    fernet_decrypt(row.username) \in {Admin_G, Admin_D} \/ row.is_admin = 1

delete_user_unlocked(tbl, user_id) ==
    LET k == RowIndex(tbl, user_id)
    IN  IF k = 0 THEN [ret |-> <<FALSE>>, tbl |-> tbl]
        ELSE [ret |-> <<TRUE>>, tbl |-> RemoveAt(tbl, k)]

\* delete_user returns a bare bool: ret is <<ok>>.
delete_user(tbl, user_id) ==
    LET k == RowIndex(tbl, user_id)
    IN  IF k = 0 THEN [ret |-> <<FALSE>>, tbl |-> tbl]
        ELSE IF admin_locked(tbl[k]) THEN [ret |-> <<FALSE>>, tbl |-> tbl]
        ELSE [ret |-> <<TRUE>>, tbl |-> RemoveAt(tbl, k)]

update_user_partial(tbl, user_id, new_username, new_password) ==
    LET k == RowIndex(tbl, user_id)
    IN  IF k = 0 THEN [ret |-> <<FALSE, "not_found">>, tbl |-> tbl]
        ELSE IF admin_locked(tbl[k])
        THEN [ret |-> <<FALSE, "admin_locked">>, tbl |-> tbl]
        ELSE LET t1 == IF new_password # <<>>
                       THEN [tbl EXCEPT ![k].password_hash = hash_pw(new_password)]
                       ELSE tbl
             IN  IF new_username # <<>> /\ username_exists(tbl, new_username)
                 THEN [ret |-> <<FALSE, "name_exists">>, tbl |-> t1]
                 ELSE [ret |-> <<TRUE, "ok">>,
                       tbl |-> IF new_username # <<>>
                               THEN [t1 EXCEPT ![k].username =
                                        fernet_encrypt(user_id, new_username)]
                               ELSE t1]

\* update_user returns (ok, reason): ret is <<ok, reason>>.  A None argument
\* is the empty string here: the code only tests the arguments' truth.
update_user(tbl, user_id, new_username, new_password) ==
    LET k == RowIndex(tbl, user_id)
    IN  IF k = 0 THEN [ret |-> <<FALSE, "not_found">>, tbl |-> tbl]
        ELSE IF admin_locked(tbl[k])
        THEN [ret |-> <<FALSE, "admin_locked">>, tbl |-> tbl]
        ELSE IF new_username # <<>> /\ username_exists(tbl, new_username)
        THEN [ret |-> <<FALSE, "name_exists">>, tbl |-> tbl]
        ELSE LET t1 == IF new_username # <<>>
                       THEN [tbl EXCEPT ![k].username =
                                fernet_encrypt(user_id, new_username)]
                       ELSE tbl
                 t2 == IF new_password # <<>>
                       THEN [t1 EXCEPT ![k].password_hash = hash_pw(new_password)]
                       ELSE t1
             IN  [ret |-> <<TRUE, "ok">>, tbl |-> t2]

(***************************************************************************)
(* server.py credential-store requests.  auth is what require_auth(request,*)
(* admin_required=True) returned: None or a payload.  id is the body's     *)
(* "id" field: <<>> when the body has none, <<n>> otherwise.  target       *)
(* records what the addressed row was when the request arrived.            *)
(***************************************************************************)
Response(op, status, text, target, called) ==
    [op |-> op, status |-> status, text |-> text, target |-> target,
     called |-> called]

Target(tbl, user_id) ==
    LET k == RowIndex(tbl, user_id)
    IN  IF k = 0 THEN "missing"
        ELSE IF admin_locked(tbl[k]) THEN "admin" ELSE "user"

\* create_app, line 543, with the configured ADMIN_G_PASS / ADMIN_D_PASS.
Startup(pwG, pwD) ==
    LET r == init_db(users, next_id, pwG, pwD)
    IN  /\ r.next_id <= MaxId + 1
        /\ users' = r.tbl
        /\ next_id' = r.next_id
        /\ started' = TRUE
        /\ ulast' = Response("startup", 0, "", "none", FALSE)
        /\ UNCHANGED supplied

\* register, lines 421-429.
Register(username, password) ==
    /\ started
    /\ next_id <= MaxId
    /\ IF username_exists(users, username)
       THEN /\ ulast' = Response("register", 409, "User exists", "none", FALSE)
            /\ UNCHANGED <<users, next_id, supplied>>
       ELSE LET r == create_user(users, next_id, username, password)
            IN  IF r.ret
                THEN /\ users' = r.tbl
                     /\ next_id' = r.next_id
                     /\ supplied' = [supplied EXCEPT ![next_id] = password]
                     /\ ulast' = Response("register", 200, "User created", "none", TRUE)
                ELSE /\ ulast' = Response("register", 500, "Error creating user",
                                          "none", TRUE)
                     /\ UNCHANGED <<users, next_id, supplied>>
    /\ UNCHANGED started

\* admin_delete, lines 490-499.
AdminDelete(auth, id) ==
    /\ started
    /\ IF auth = None
       THEN /\ ulast' = Response("admin_delete", 401, "Unauthorized", "none", FALSE)
            /\ UNCHANGED users
       ELSE IF id = <<>>
       THEN /\ ulast' = Response("admin_delete", 400, "Invalid request", "none", FALSE)
            /\ UNCHANGED users
       ELSE LET user_id == id[1]
                r == delete_user(users, user_id)
                t == Target(users, user_id)
            IN  /\ users' = r.tbl
                /\ ulast' = IF r.ret[1]
                            THEN Response("admin_delete", 200, "User deleted", t, TRUE)
                            ELSE Response("admin_delete", 404,
                                          "User not found or admin", t, TRUE)
    /\ UNCHANGED <<next_id, started, supplied>>

\* admin_update, lines 501-517.  username / password are the body's fields as
\* sent, the empty string when absent.
AdminUpdate(auth, id, username, password) ==
    /\ started
    /\ LET new_name == strip(username)
           new_pass == strip(password)
       IN  IF auth = None
           THEN /\ ulast' = Response("admin_update", 401, "Unauthorized", "none", FALSE)
                /\ UNCHANGED <<users, supplied>>
           ELSE IF id = <<>> \/ (new_name = <<>> /\ new_pass = <<>>)
           THEN /\ ulast' = Response("admin_update", 400, "Invalid request",
                                     "none", FALSE)
                /\ UNCHANGED <<users, supplied>>
           ELSE LET user_id == id[1]
                    r == update_user(users, user_id, new_name, new_pass)
                    t == Target(users, user_id)
                IN  /\ users' = r.tbl
                    /\ supplied' = IF r.ret[1] /\ password # <<>>
                                   THEN [supplied EXCEPT ![user_id] = password]
                                   ELSE supplied
                    /\ ulast' =
                         IF r.ret[1]
                         THEN Response("admin_update", 200, "Updated", t, TRUE)
                         ELSE IF r.ret[2] = "admin_locked"
                         THEN Response("admin_update", 403, "Admin locked", t, TRUE)
                         ELSE IF r.ret[2] = "name_exists"
                         THEN Response("admin_update", 409, "Name exists", t, TRUE)
                         ELSE Response("admin_update", 404, "User not found", t, TRUE)
    /\ UNCHANGED <<next_id, started>>

\* The inputs the requests are drawn from.
AdminPasswords == { <<>>, <<"a", "1">>, <<"a", "2">> }
UserNames == { <<"b">>, lower(Admin_G) }
UpdateNames == { <<>>, <<"b", " ">> }
RegisterPasswords == { <<"p", "1">>, <<" ", "p", "2">> }
UpdatePasswords == { <<>>, <<" ", "p", "2">> }
Passwords == RegisterPasswords \cup UpdatePasswords \cup {<<"p", "2">>}
Auths == {None, "payload"}
UserIds == 1..MaxId
BodyIds == {<<>>} \cup {<<n>> : n \in UserIds}

UserInit ==
    /\ users = <<>>
    /\ next_id = 1
    /\ started = FALSE
    /\ supplied = [id \in UserIds |-> <<"unset">>]
    /\ ulast = Response("none", 0, "", "none", FALSE)

(***************************************************************************)
(* server.py token authority, lines 380-402, with PyJWT.  A token is its   *)
(* payload and an HS256 signature over that payload under a key.  PyJWT    *)
(* writes exp as timegm(exp.utctimetuple()): whole seconds, the fraction   *)
(* dropped.                                                                *)
(***************************************************************************)
SecondsPerMinute == 60
\* Lines 149-150: os.getenv with a default.  A deployment that sets the
\* settings sets the secret to a value of its own and the expiry to 60.
JWT_EXPIRE_MINUTES == 60
JWT_SECRET ==
    IF "JWT_SECRET" \in environ THEN "JWT_SECRET" ELSE "fallback_secret_key"
ExpireTicks == JWT_EXPIRE_MINUTES * SecondsPerMinute * TicksPerSecond
MaxNow == MaxIssueTick + ExpireTicks + 2 * TicksPerSecond

utc_seconds(t) == t \div TicksPerSecond

Sign(payload, key) == [key |-> key, payload |-> payload]

jwt_encode(payload, key) == [payload |-> payload, sig |-> Sign(payload, key)]

create_token(username, is_admin, t) ==
    jwt_encode([user |-> username, is_admin |-> is_admin,
                exp |-> utc_seconds(t + ExpireTicks)], JWT_SECRET)

\* The words of a header value, as split(" ") yields them: a literal text or
\* the compact serialisation of a token.
NoToken == jwt_encode([user |-> <<>>, is_admin |-> FALSE, exp |-> 0], "none")
Lit(text) == [kind |-> "text", text |-> text, tok |-> NoToken]
Jwt(tok) == [kind |-> "jwt", text |-> "", tok |-> tok]

\* PyJWT's _validate_exp.  Releases that read the clock as
\* timegm(utcnow().utctimetuple()) raise ExpiredSignatureError when
\* exp < now in whole seconds; releases that read it as a float timestamp
\* raise when exp <= now.  server.py runs with either (line 384 accepts the
\* bytes and the str return of jwt.encode).
PyJWTBuilds == {"int_now", "float_now"}

jwt_expired(exp, t) ==
    IF pyjwt = "int_now" THEN exp < utc_seconds(t)
    ELSE exp * TicksPerSecond <= t

decode_token_unexpiring(word, t) ==
    IF word.kind # "jwt" THEN <<>>
    ELSE IF word.tok.sig # Sign(word.tok.payload, JWT_SECRET) THEN <<>>
    ELSE <<word.tok.payload>>

\* decode_token returns None, here <<>>, or the payload, here <<payload>>.
decode_token(word, t) ==
    IF word.kind # "jwt" THEN <<>>
    ELSE IF word.tok.sig # Sign(word.tok.payload, JWT_SECRET) THEN <<>>
    ELSE IF jwt_expired(word.tok.payload.exp, t) THEN <<>>
    ELSE <<word.tok.payload>>

require_auth_consulting_store(header, admin_required, t) ==
    IF ~(Len(header) >= 2 /\ header[1] = Lit("Bearer")) THEN <<>>
    ELSE LET data == decode_token(header[2], t)
         IN  IF data = <<>> THEN <<>>
             ELSE IF ~username_exists_exact(users, data[1].user) THEN <<>>
             ELSE IF admin_required /\ ~data[1].is_admin THEN <<>>
             ELSE data

\* require_auth, lines 392-402.  header is auth.split(" "): the value
\* starts with "Bearer " iff its first word is "Bearer" and a second word
\* follows.
require_auth(header, admin_required, t) ==
    IF ~(Len(header) >= 2 /\ header[1] = Lit("Bearer")) THEN <<>>
    ELSE LET data == decode_token(header[2], t)
         IN  IF data = <<>> THEN <<>>
             ELSE IF admin_required /\ ~data[1].is_admin THEN <<>>
             ELSE data

get_all_users(tbl) ==
    [k \in DOMAIN tbl |->
        [id |-> tbl[k].id, username |-> fernet_decrypt(tbl[k].username),
         is_admin |-> tbl[k].is_admin # 0]]

\* What a request's Authorization header carries.
Credential(header, t) ==
    IF header = <<Lit("")>> THEN "absent"
    ELSE IF ~(Len(header) = 2 /\ header[1] = Lit("Bearer")
              /\ header[2].kind = "jwt") THEN "malformed"
    ELSE IF header[2].tok.sig # Sign(header[2].tok.payload, JWT_SECRET)
    THEN "bad_signature"
    ELSE IF decode_token(header[2], t) = <<>> THEN "expired"
    ELSE IF header[2].tok.payload.is_admin THEN "admin"
    ELSE "not_admin"

AuthResponse(op, status, text, body, ran, cred) ==
    [op |-> op, status |-> status, text |-> text, body |-> body,
     ran |-> ran, cred |-> cred]

Login_flat(username, password) ==
    /\ started
    /\ now <= MaxIssueTick
    /\ Cardinality(issued) < MaxTokens
    /\ LET result == check_user(users, username, password)
       IN  IF result.ok
           THEN LET token == create_token(username, result.admin, now)
                IN  /\ issued' = issued \cup {[token |-> token, at |-> now]}
                    /\ alast' = AuthResponse("login", 200,
                                    "token", <<>>, TRUE, "none")
           ELSE /\ alast' = AuthResponse("login", 403, "Wrong credentials",
                                         <<>>, TRUE, "none")
                /\ UNCHANGED issued
    /\ UNCHANGED <<now, pyjwt>>

\* login, lines 408-419.
Login(username, password) ==
    /\ started
    /\ now <= MaxIssueTick
    /\ Cardinality(issued) < MaxTokens
    /\ LET result == check_user(users, username, password)
       IN  IF result.ok
           THEN LET token == create_token(username, result.admin, now)
                IN  /\ issued' = issued \cup {[token |-> token, at |-> now]}
                    /\ alast' = AuthResponse("login",
                                    IF result.admin THEN 202 ELSE 200,
                                    "token", <<>>, TRUE, "none")
           ELSE /\ alast' = AuthResponse("login", 403, "Wrong credentials",
                                         <<>>, TRUE, "none")
                /\ UNCHANGED issued
    /\ UNCHANGED <<now, pyjwt>>

\* admin_users, lines 479-488.
AdminUsers(header) ==
    /\ started
    /\ LET auth_data == require_auth(header, TRUE, now)
       IN  IF auth_data = <<>>
           THEN alast' = AuthResponse("admin_users", 401, "Unauthorized", <<>>,
                                      FALSE, Credential(header, now))
           ELSE alast' = AuthResponse("admin_users", 200, "", get_all_users(users),
                                      TRUE, Credential(header, now))
    /\ UNCHANGED <<now, pyjwt, issued>>

\* The clock advances.  It is observed tick by tick while tokens are issued
\* and from one second before the earliest exp on; the interval between is
\* crossed in one step.
ObservedInstants ==
    (0..(MaxIssueTick + TicksPerSecond)) \cup ((ExpireTicks - TicksPerSecond)..MaxNow)

Tick ==
    /\ now < MaxNow
    /\ now' = CHOOSE t \in ObservedInstants :
                  t > now /\ \A u \in ObservedInstants : u > now => t <= u
    /\ UNCHANGED <<pyjwt, issued, alast>>

\* The tokens a client can present: the issued ones, an issued one whose
\* payload was rewritten to carry the admin flag, and one signed under a key
\* that is not JWT_SECRET.
Tamper(tok) == [tok EXCEPT !.payload.is_admin = TRUE, !.payload.user = <<"x">>]
Forge(tok) == jwt_encode(tok.payload, "guessed")
PresentedTokens ==
    UNION {{e.token, Tamper(e.token), Forge(e.token)} : e \in issued}
Headers ==
    { <<Lit("")>>, <<Lit("Bearer")>>, <<Lit("Bearer"), Lit("")>>,
      <<Lit("Bearer"), Lit("abc")>> }
    \cup { <<Lit("Bearer"), Jwt(tok)>> : tok \in PresentedTokens }
    \cup { <<Lit("bearer"), Jwt(tok)>> : tok \in PresentedTokens }
    \cup { <<Lit("Bearer"), Lit(""), Jwt(tok)>> : tok \in PresentedTokens }

\* build: the PyJWT release the server imports.
AuthInit(build, env) ==
    /\ environ = env
    /\ now = 0
    /\ pyjwt = build
    /\ issued = {}
    /\ alast = AuthResponse("none", 0, "", <<>>, FALSE, "none")

(***************************************************************************)
(* Denis_Version recording coordinator: camera.py CameraController,        *)
(* gps.py GPSModule and the /admin/start-recording, /admin/stop-recording  *)
(* and /admin/system-restart handlers of main_webrtc.py.  An Optional is   *)
(* <<>> for None and <<v>> for a value.  hw is the Picamera2 object: open  *)
(* or closed.                                                              *)
(***************************************************************************)
CameraController_init ==
    [is_recording |-> FALSE, recording_start_time |-> <<>>,
     current_recording_path |-> <<>>, hw |-> "open"]

start_recording_replacing(cam, output_path, t, raises) ==
    IF raises \/ cam.hw = "closed"
    THEN [ret |-> <<FALSE, "Fehler beim Starten">>,
          cam |-> [cam EXCEPT !.is_recording = FALSE]]
    ELSE [ret |-> <<TRUE, "Aufnahme gestartet">>,
          cam |-> [cam EXCEPT !.is_recording = TRUE,
                              !.recording_start_time = <<t>>,
                              !.current_recording_path = <<output_path>>]]

\* camera.py start_recording, lines 283-336.  raises: the encoder or
\* Picamera2.start_recording raised.
start_recording(cam, output_path, t, raises) ==
    IF cam.is_recording
    THEN [ret |-> <<FALSE, "Es läuft bereits eine Aufnahme">>, cam |-> cam]
    ELSE IF raises \/ cam.hw = "closed"
    THEN [ret |-> <<FALSE, "Fehler beim Starten">>,
          cam |-> [cam EXCEPT !.is_recording = FALSE]]
    ELSE [ret |-> <<TRUE, "Aufnahme gestartet">>,
          cam |-> [cam EXCEPT !.is_recording = TRUE,
                              !.recording_start_time = <<t>>,
                              !.current_recording_path = <<output_path>>]]

stop_recording_unguarded(cam, raises) ==
    IF raises \/ cam.hw = "closed"
    THEN [ret |-> <<FALSE, "Fehler beim Stoppen">>,
          cam |-> [cam EXCEPT !.is_recording = FALSE]]
    ELSE [ret |-> <<TRUE, "Aufnahme beendet">>,
          cam |-> [cam EXCEPT !.is_recording = FALSE,
                              !.recording_start_time = <<>>,
                              !.current_recording_path = <<>>]]

\* camera.py stop_recording, lines 338-395.
stop_recording(cam, raises) ==
    IF ~cam.is_recording
    THEN [ret |-> <<FALSE, "Keine Aufnahme läuft">>, cam |-> cam]
    ELSE IF raises \/ cam.hw = "closed"
    THEN [ret |-> <<FALSE, "Fehler beim Stoppen">>,
          cam |-> [cam EXCEPT !.is_recording = FALSE]]
    ELSE [ret |-> <<TRUE, "Aufnahme beendet">>,
          cam |-> [cam EXCEPT !.is_recording = FALSE,
                              !.recording_start_time = <<>>,
                              !.current_recording_path = <<>>]]

\* camera.py cleanup, lines 456-476.
cleanup(cam, raises) ==
    LET c1 == IF cam.is_recording THEN stop_recording(cam, raises).cam ELSE cam
    IN  [c1 EXCEPT !.hw = "closed"]

\* utils.py generate_full_recording_path: the file name carries the time to
\* the minute.
generate_full_recording_path(t) == [minute |-> t \div TicksPerMinute]

\* gps.py start_tracking, stop_tracking, disconnect.
start_tracking(g) ==
    IF g.is_tracking \/ ~g.is_connected THEN g
    ELSE [g EXCEPT !.is_tracking = TRUE]

stop_tracking(g) == [g EXCEPT !.is_tracking = FALSE]

disconnect(g) == [g EXCEPT !.is_tracking = FALSE, !.is_connected = FALSE]

\* main_webrtc.py require_admin, lines 202-223: <<>> lets the handler run.
require_admin(sess) ==
    IF sess = "none" THEN <<401, "Nicht eingeloggt">>
    ELSE IF sess = "invalid" THEN <<401, "Session ungültig">>
    ELSE IF sess = "user" THEN <<403, "Admin-Rechte erforderlich">>
    ELSE <<>>

Sessions == {"none", "invalid", "user", "admin"}
Storages == {"None", "ok", "warning"}

\* active: the handler body ran while a recording begun by a successful
\* start had not been stopped.
RecResponse(op, status, error, active) ==
    [op |-> op, status |-> status, error |-> error, active |-> active]

LockFree == [held |-> FALSE, path |-> [minute |-> 0], ret |-> <<FALSE, "">>]

AdminStartRecordingBegin_unchecked(sess, storage, raises) ==
    LET denied == require_admin(sess)
    IN  IF denied # <<>>
        THEN /\ rlast' = RecResponse("admin_start_recording", denied[1], denied[2], FALSE)
             /\ UNCHANGED <<camera, current_recording, gps, recording_lock, rclock, ractive,
                            uploaded>>
        ELSE /\ ~recording_lock.held
             /\ IF current_recording # <<>> /\ camera.is_recording
                THEN /\ rlast' = RecResponse("admin_start_recording", 400,
                                            "Aufnahme läuft bereits", ractive.on)
                     /\ UNCHANGED <<camera, current_recording, gps, recording_lock,
                                    rclock, ractive, uploaded>>
                ELSE LET recording_path == generate_full_recording_path(rclock)
                         r == start_recording(camera, recording_path, rclock, raises)
                     IN  /\ gps' = IF gps.gps_enabled /\ ~gps.is_tracking
                                   THEN start_tracking(gps) ELSE gps
                         /\ camera' = r.cam
                         /\ recording_lock' = [held |-> TRUE, path |-> recording_path,
                                               ret |-> r.ret]
                         /\ ractive' = IF r.ret[1]
                                       THEN [on |-> TRUE, path |-> <<recording_path>>,
                                             start |-> <<rclock>>, info |-> <<>>]
                                       ELSE ractive
                         /\ rlast' = RecResponse("admin_start_recording", 0, "",
                                                 ractive.on)
                         /\ UNCHANGED <<current_recording, rclock, uploaded>>

\* admin_start_recording, lines 354-378: from the request to the return of
\* camera.start_recording, recording_lock taken.
AdminStartRecordingBegin(sess, storage, raises) ==
    LET denied == require_admin(sess)
    IN  IF denied # <<>>
        THEN /\ rlast' = RecResponse("admin_start_recording", denied[1], denied[2], FALSE)
             /\ UNCHANGED <<camera, current_recording, gps, recording_lock, rclock, ractive,
                            uploaded>>
        ELSE /\ ~recording_lock.held
             /\ IF current_recording # <<>> /\ camera.is_recording
                THEN /\ rlast' = RecResponse("admin_start_recording", 400,
                                            "Aufnahme läuft bereits", ractive.on)
                     /\ UNCHANGED <<camera, current_recording, gps, recording_lock,
                                    rclock, ractive, uploaded>>
                ELSE IF storage = "warning"
                THEN /\ rlast' = RecResponse("admin_start_recording", 507,
                                            "Speicher zu voll", ractive.on)
                     /\ UNCHANGED <<camera, current_recording, gps, recording_lock,
                                    rclock, ractive, uploaded>>
                ELSE LET recording_path == generate_full_recording_path(rclock)
                         r == start_recording(camera, recording_path, rclock, raises)
                     IN  /\ gps' = IF gps.gps_enabled /\ ~gps.is_tracking
                                   THEN start_tracking(gps) ELSE gps
                         /\ camera' = r.cam
                         /\ recording_lock' = [held |-> TRUE, path |-> recording_path,
                                               ret |-> r.ret]
                         /\ ractive' = IF r.ret[1]
                                       THEN [on |-> TRUE, path |-> <<recording_path>>,
                                             start |-> <<rclock>>, info |-> <<>>]
                                       ELSE ractive
                         /\ rlast' = RecResponse("admin_start_recording", 0, "",
                                                 ractive.on)
                         /\ UNCHANGED <<current_recording, rclock, uploaded>>

\* admin_start_recording, lines 380-400: the rest of the handler.
AdminStartRecordingReturn ==
    /\ recording_lock.held
    /\ IF recording_lock.ret[1]
       THEN LET info == [path |-> recording_lock.path, start_time |-> rclock,
                         stats |-> FALSE]
            IN  /\ current_recording' = <<info>>
                /\ ractive' = [ractive EXCEPT !.info = <<info>>]
                /\ rlast' = [rlast EXCEPT !.status = 200, !.error = ""]
       ELSE /\ rlast' = [rlast EXCEPT !.status = 500, !.error = recording_lock.ret[2]]
            /\ UNCHANGED <<current_recording, ractive>>
    /\ recording_lock' = LockFree
    /\ UNCHANGED <<camera, gps, rclock, uploaded>>

AdminStopRecording_cancelling(sess, raises, upload, gps_step) ==
    LET denied == require_admin(sess)
    IN  IF denied # <<>>
        THEN /\ rlast' = RecResponse("admin_stop_recording", denied[1], denied[2], FALSE)
             /\ UNCHANGED <<camera, current_recording, gps, recording_lock, rclock,
                            ractive, uploaded>>
        ELSE /\ ~recording_lock.held
             /\ LET r == stop_recording(camera, raises)
                IN  /\ camera' = r.cam
                    /\ ractive' = [ractive EXCEPT !.on = FALSE]
                    /\ IF ~r.ret[1]
                       THEN /\ rlast' = RecResponse("admin_stop_recording", 400,
                                                   r.ret[2], ractive.on)
                            /\ UNCHANGED <<current_recording, gps, uploaded>>
                       ELSE IF gps.is_tracking /\ gps_step # "ok"
                       THEN /\ gps' = stop_tracking(gps)
                            /\ rlast' = RecResponse("admin_stop_recording", 500,
                                                    "Fehler", ractive.on)
                            /\ UNCHANGED <<current_recording, uploaded>>
                       ELSE /\ gps' = IF gps.is_tracking THEN stop_tracking(gps) ELSE gps
                            /\ current_recording' =
                                  IF current_recording # <<>>
                                  THEN <<[current_recording[1] EXCEPT !.stats = TRUE]>>
                                  ELSE current_recording
                            /\ uploaded' =
                                  IF current_recording # <<>> /\ upload = "ok"
                                  THEN uploaded \cup {current_recording[1].path}
                                  ELSE uploaded
                            /\ rlast' = RecResponse("admin_stop_recording", 200, "",
                                                    ractive.on)
             /\ UNCHANGED <<recording_lock, rclock>>

\* admin_stop_recording, lines 403-447.  upload: "off" when auto_upload or
\* sftp_enabled is off, else what sftp_uploader.upload_recording returned
\* (it returns a tuple on every path, sftp_uploader.py 311-334 and 186-289).
\* gps_step: what the GPS step met when tracking was on: "ok",
\* "stop_failed" (gps.stop_tracking caught an exception and returned
\* failure, gps.py 331-334, is_tracking cleared) or "export_failed"
\* (export_gpx returned failure, gps.py 369-370 and 393-395).  Neither
\* result is looked at after line 417, so the handler goes on the same way.
AdminStopRecording(sess, raises, upload, gps_step) ==
    LET denied == require_admin(sess)
    IN  IF denied # <<>>
        THEN /\ rlast' = RecResponse("admin_stop_recording", denied[1], denied[2], FALSE)
             /\ UNCHANGED <<camera, current_recording, gps, recording_lock, rclock,
                            ractive, uploaded>>
        ELSE /\ ~recording_lock.held
             /\ LET r == stop_recording(camera, raises)
                IN  /\ camera' = r.cam
                    /\ ractive' = [ractive EXCEPT !.on = FALSE]
                    /\ IF ~r.ret[1]
                       THEN /\ rlast' = RecResponse("admin_stop_recording", 400,
                                                   r.ret[2], ractive.on)
                            /\ UNCHANGED <<current_recording, gps, uploaded>>
                       ELSE /\ gps' = IF gps.is_tracking THEN stop_tracking(gps) ELSE gps
                            /\ current_recording' =
                                  IF current_recording # <<>>
                                  THEN <<[current_recording[1] EXCEPT !.stats = TRUE]>>
                                  ELSE current_recording
                            /\ uploaded' =
                                  IF current_recording # <<>> /\ upload = "ok"
                                  THEN uploaded \cup {current_recording[1].path}
                                  ELSE uploaded
                            /\ rlast' = RecResponse("admin_stop_recording", 200, "",
                                                    ractive.on)
             /\ UNCHANGED <<recording_lock, rclock>>

\* admin_system_restart, lines 604-620 (admin_system_shutdown, 623-638, does
\* the same): camera.cleanup() and gps.disconnect(), recording_lock not taken.
AdminSystemRestart(sess, raises) ==
    LET denied == require_admin(sess)
    IN  IF denied # <<>>
        THEN /\ rlast' = RecResponse("admin_system_restart", denied[1], denied[2], FALSE)
             /\ UNCHANGED <<camera, current_recording, gps, recording_lock, rclock, ractive,
                            uploaded>>
        ELSE /\ camera' = cleanup(camera, raises)
             /\ gps' = disconnect(gps)
             /\ ractive' = IF camera.is_recording
                           THEN [ractive EXCEPT !.on = FALSE] ELSE ractive
             /\ rlast' = RecResponse("admin_system_restart", 200, "", ractive.on)
             /\ UNCHANGED <<current_recording, recording_lock, rclock, uploaded>>

\* datetime.now() advances.
RecTick ==
    /\ rclock < MaxRecClock
    /\ rclock' = rclock + 1
    /\ UNCHANGED <<camera, current_recording, gps, recording_lock, rlast, ractive,
                   uploaded>>

\* gps.py GPSController.__init__, lines 60-95: connect_gps runs when GPS is
\* enabled and connects when the gpsd library is available.
GPSController_init(enabled, available) ==
    [gps_enabled |-> enabled, is_connected |-> enabled /\ available,
     is_tracking |-> FALSE]

RecInit(enabled, available) ==
    /\ camera = CameraController_init
    /\ current_recording = <<>>
    /\ gps = GPSController_init(enabled, available)
    /\ recording_lock = LockFree
    /\ rclock = 0
    /\ rlast = RecResponse("none", 0, "", FALSE)
    /\ ractive = [on |-> FALSE, path |-> <<>>, start |-> <<>>, info |-> <<>>]
    /\ uploaded = {}
    /\ gpsctl = [gps_thread_running |-> FALSE, loops |-> <<>>, track_points |-> {},
                 stopping |-> FALSE]
    /\ conv = [pc |-> "unset", color_convert |-> "auto", swap_rb |-> FALSE,
               height |-> 0, width |-> 0, frame |-> <<>>, out |-> <<>>]

(***************************************************************************)
(* Denis_Version auth.py AuthManager.  A row is keyed by its UNIQUE         *)
(* username.  A password hash is the password together with the random     *)
(* salt hash_password drew (lines 115-134); verify_password (136-158)       *)
(* accepts exactly the hashed password.  An Optional is <<>> or <<v>>.  A   *)
(* session token is secrets.token_urlsafe(32): a value never drawn before.  *)
(* Each operator returns what the method returns and the table it leaves.   *)
(***************************************************************************)
\* create_user, lines 186-253.  salt: the salt hash_password draws.
AuthManager_create_user(tbl, username, password, is_admin, email, force_create, salt) ==
    LET existing_user == {r \in tbl : r.username = username}
        password_hash == [pw |-> password, salt |-> salt]
    IN  IF existing_user # {} /\ ~force_create
        THEN [ret |-> <<FALSE, "existiert bereits">>, tbl |-> tbl]
        ELSE IF existing_user # {}
        THEN [ret |-> <<TRUE, "wurde aktualisiert">>,
              tbl |-> {IF r.username = username
                       THEN [r EXCEPT !.password_hash = password_hash,
                                      !.is_admin = is_admin, !.email = email]
                       ELSE r : r \in tbl}]
        ELSE [ret |-> <<TRUE, "wurde erfolgreich erstellt">>,
              tbl |-> tbl \cup {[username |-> username,
                                 password_hash |-> password_hash,
                                 is_admin |-> is_admin, email |-> email,
                                 session_token |-> <<>>,
                                 session_expires |-> <<>>]}]

authenticate_user_keeping(tbl, username, password, token, t) ==
    LET user_data == {r \in tbl : r.username = username}
    IN  IF user_data = {} THEN [ret |-> <<>>, tbl |-> tbl]
        ELSE LET u == CHOOSE r \in user_data : TRUE
                 session_expires == IF u.is_admin THEN t + 36500 * 24 ELSE t + 2
             IN  IF u.password_hash.pw # password THEN [ret |-> <<>>, tbl |-> tbl]
                 ELSE [ret |-> <<[username |-> username, is_admin |-> u.is_admin,
                                  session_token |-> token,
                                  session_expires |-> session_expires]>>,
                       tbl |-> IF u.session_token # <<>> THEN tbl
                               ELSE (tbl \ {u}) \cup
                                    {[u EXCEPT !.session_token = <<token>>,
                                               !.session_expires = <<session_expires>>]}]

\* authenticate_user, lines 255-344: timedelta(days=36500) for an admin,
\* timedelta(hours=2) otherwise.  token: the token drawn.
authenticate_user(tbl, username, password, token, t) ==
    LET user_data == {r \in tbl : r.username = username}
    IN  IF user_data = {} THEN [ret |-> <<>>, tbl |-> tbl]
        ELSE LET u == CHOOSE r \in user_data : TRUE
                 session_expires == IF u.is_admin THEN t + 36500 * 24 ELSE t + 2
             IN  IF u.password_hash.pw # password THEN [ret |-> <<>>, tbl |-> tbl]
                 ELSE [ret |-> <<[username |-> username, is_admin |-> u.is_admin,
                                  session_token |-> token,
                                  session_expires |-> session_expires]>>,
                       tbl |-> (tbl \ {u}) \cup
                               {[u EXCEPT !.session_token = <<token>>,
                                          !.session_expires = <<session_expires>>]}]

verify_session_unexpiring(tbl, session_token, t) ==
    LET user_data == {r \in tbl : r.session_token = session_token}
    IN  IF session_token = <<>> \/ user_data = {} THEN [ret |-> <<>>, tbl |-> tbl]
        ELSE LET u == CHOOSE r \in user_data : TRUE
             IN  [ret |-> <<[username |-> u.username, is_admin |-> u.is_admin,
                             session_expires |-> u.session_expires[1]]>>,
                  tbl |-> tbl]

\* verify_session, lines 346-410.
verify_session(tbl, session_token, t) ==
    LET user_data == {r \in tbl : r.session_token = session_token}
    IN  IF session_token = <<>> \/ user_data = {} THEN [ret |-> <<>>, tbl |-> tbl]
        ELSE LET u == CHOOSE r \in user_data : TRUE
             IN  IF t > u.session_expires[1]
                 THEN [ret |-> <<>>,
                       tbl |-> (tbl \ {u}) \cup
                               {[u EXCEPT !.session_token = <<>>,
                                          !.session_expires = <<>>]}]
                 ELSE [ret |-> <<[username |-> u.username, is_admin |-> u.is_admin,
                                  session_expires |-> u.session_expires[1]]>>,
                       tbl |-> tbl]

\* logout_user, lines 412-445.
logout_user(tbl, session_token) ==
    LET hit == {r \in tbl : r.session_token = session_token}
    IN  [ret |-> hit # {},
         tbl |-> {IF r \in hit
                  THEN [r EXCEPT !.session_token = <<>>, !.session_expires = <<>>]
                  ELSE r : r \in tbl}]

\* delete_user, lines 485-521.
AuthManager_delete_user(tbl, username) ==
    IF username \in {"Admin_G", "Admin_D"}
    THEN [ret |-> <<FALSE, "Standard-Admin-Accounts können nicht gelöscht werden">>,
          tbl |-> tbl]
    ELSE IF \E r \in tbl : r.username = username
    THEN [ret |-> <<TRUE, "wurde gelöscht">>,
          tbl |-> {r \in tbl : r.username # username}]
    ELSE [ret |-> <<FALSE, "nicht gefunden">>, tbl |-> tbl]

\* update_user_email, lines 523-551.
update_user_email(tbl, username, email) ==
    [ret |-> \E r \in tbl : r.username = username,
     tbl |-> {IF r.username = username THEN [r EXCEPT !.email = email] ELSE r :
                 r \in tbl}]

\* change_password, lines 553-589.
change_password(tbl, username, new_password, salt) ==
    [ret |-> IF \E r \in tbl : r.username = username
             THEN <<TRUE, "Passwort erfolgreich geändert">>
             ELSE <<FALSE, "nicht gefunden">>,
     tbl |-> {IF r.username = username
              THEN [r EXCEPT !.password_hash = [pw |-> new_password, salt |-> salt]]
              ELSE r : r \in tbl}]

ExtraInit ==
    /\ am_users = {}
    /\ am_constructed = FALSE
    /\ am_now = 0
    /\ am_issued = <<>>
    /\ am_salts = 0
    /\ am_dead = {}
    /\ am_last = [op |-> "none", arg |-> <<>>, ret |-> <<>>]
    /\ shared_frame = <<0, 0>>
    /\ lock = "free"
    /\ worker = [pc |-> "start", frame |-> 0, test_pattern |-> FALSE]
    /\ track = [t \in 1..NumTracks |-> [pc |-> "idle", local |-> <<0, 0>>]]
    /\ got = [t \in 1..NumTracks |-> <<>>]
    /\ camproc = "started"
    /\ peer_connections = {}
    /\ rtc_pc = <<>>
    /\ rtc_last = [op |-> "none", sess |-> <<>>, status |-> 0]
    /\ rtc_loop = [holder |-> "free", todo |-> {}, awaiting |-> <<>>, tasks |-> {},
                   blocked |-> FALSE]
    /\ inflight = {}
    /\ sftp = [pc |-> "idle", attempt |-> 0, is_connected |-> FALSE, ret |-> <<>>]
    /\ mail = [pc |-> "idle", attempt |-> 0, ret |-> <<>>]

(***************************************************************************)
(* camera_stream.py.  A frame is the number of the capture that produced   *)
(* it; 0 is the content of the SharedMemory block CameraProcess creates,   *)
(* before the worker's first write.  np.copyto moves a frame in two        *)
(* halves, so a copy the lock does not protect can be seen half done.      *)
(* lock is "free", "worker" or "track" (held by the track that is copying).*)
(***************************************************************************)
\* _camera_worker, lines 110-206.  The process starts at "start": with
\* test_pattern it builds the bars and enters their loop (163-175);
\* otherwise it opens and starts the sensor (179-191), and an exception of
\* Picamera2, create_video_configuration, configure or start, which nothing
\* catches, ends the process ("open_failed").  Then, while stop_event is
\* not set: capture (or the test pattern's next round), then copy into the
\* shared buffer under the lock (172-175, 194-200); capture_array, resize
\* or _convert_frame raising leaves the loop through the finally of lines
\* 201-206, which has no except, and ends the process ("capture_failed").
\* Once stop_event is set the loop ends and the process exits.
camera_worker ==
    /\ \/ /\ worker.pc = "start"
          /\ \E test_pattern \in BOOLEAN, opens \in BOOLEAN :
                worker' = IF test_pattern
                          THEN [worker EXCEPT !.pc = "capture", !.test_pattern = TRUE]
                          ELSE IF opens
                          THEN [worker EXCEPT !.pc = "capture"]
                          ELSE [worker EXCEPT !.pc = "open_failed"]
          /\ UNCHANGED <<shared_frame, lock>>
       \/ /\ worker.pc = "capture" /\ worker.frame < MaxFrames
          /\ camproc = "started"
          /\ worker' = [worker EXCEPT !.pc = "lock", !.frame = @ + 1]
          /\ UNCHANGED <<shared_frame, lock>>
       \/ /\ worker.pc = "capture" /\ ~worker.test_pattern
          /\ camproc = "started"
          /\ worker' = [worker EXCEPT !.pc = "capture_failed"]
          /\ UNCHANGED <<shared_frame, lock>>
       \/ /\ worker.pc = "capture" /\ camproc = "stop_set"
          /\ worker' = [worker EXCEPT !.pc = "exited"]
          /\ UNCHANGED <<shared_frame, lock>>
       \/ /\ worker.pc = "lock" /\ lock = "free"
          /\ lock' = "worker"
          /\ worker' = [worker EXCEPT !.pc = "copy"]
          /\ UNCHANGED shared_frame
       \/ /\ worker.pc = "copy"
          /\ shared_frame' = <<worker.frame, shared_frame[2]>>
          /\ worker' = [worker EXCEPT !.pc = "copied"]
          /\ UNCHANGED lock
       \/ /\ worker.pc = "copied"
          /\ shared_frame' = <<shared_frame[1], worker.frame>>
          /\ lock' = "free"
          /\ worker' = [worker EXCEPT !.pc = "capture"]
    /\ UNCHANGED <<track, got, camproc>>

recv_unlocked(t) ==
    /\ \/ /\ track[t].pc = "idle"
          /\ track' = [track EXCEPT ![t].pc = "copy"]
          /\ UNCHANGED <<lock, got>>
       \/ /\ track[t].pc = "copy"
          /\ track' = [track EXCEPT ![t] = [pc |-> "copied",
                                            local |-> <<shared_frame[1], @.local[2]>>]]
          /\ UNCHANGED <<lock, got>>
       \/ /\ track[t].pc = "copied"
          /\ LET frm == <<track[t].local[1], shared_frame[2]>>
             IN  /\ track' = [track EXCEPT ![t] = [pc |-> "idle", local |-> frm]]
                 /\ got' = [got EXCEPT ![t] = IF @ = <<>> THEN <<frm>>
                                              ELSE <<@[Len(@)], frm>>]
          /\ UNCHANGED lock
    /\ UNCHANGED <<shared_frame, worker, camproc>>

\* SharedMemoryCameraStream.recv, lines 301-311, of a track made by
\* CameraProcess.create_track (line 270), which hands it the lock:
\* next_timestamp, then the copy into _local_frame under the lock, then
\* the VideoFrame built from _local_frame is returned.
recv(t) ==
    /\ \/ /\ track[t].pc = "idle" /\ lock = "free"
          /\ lock' = "track"
          /\ track' = [track EXCEPT ![t].pc = "copy"]
          /\ UNCHANGED got
       \/ /\ track[t].pc = "copy"
          /\ track' = [track EXCEPT ![t] = [pc |-> "copied",
                                            local |-> <<shared_frame[1], @.local[2]>>]]
          /\ UNCHANGED <<lock, got>>
       \/ /\ track[t].pc = "copied"
          /\ LET frm == <<track[t].local[1], shared_frame[2]>>
             IN  /\ track' = [track EXCEPT ![t] = [pc |-> "idle", local |-> frm]]
                 /\ got' = [got EXCEPT ![t] = IF @ = <<>> THEN <<frm>>
                                              ELSE <<@[Len(@)], frm>>]
          /\ lock' = "free"
    /\ UNCHANGED <<shared_frame, worker, camproc>>

(***************************************************************************)
(* Denis_Version main_webrtc.py, the /webrtc routes.  sess is what         *)
(* require_login (lines 180-198) finds: <<>> when no valid session is      *)
(* presented, which redirects to the login page (302) before the handler   *)
(* runs, or <<username>>.  A peer connection is its index in rtc_pc; the   *)
(* owner recorded there is the user whose request made it, which the       *)
(* program itself does not store.                                          *)
(***************************************************************************)
\* webrtc_offer, lines 645-694.  raises: setRemoteDescription, createAnswer
\* or setLocalDescription raises, after the connection joined the set.
webrtc_offer(sess, raises) ==
    /\ Len(rtc_pc) < MaxPeers
    /\ IF sess = <<>>
       THEN /\ rtc_last' = [op |-> "webrtc_offer", sess |-> sess, status |-> 302]
            /\ UNCHANGED <<peer_connections, rtc_pc>>
       ELSE /\ rtc_pc' = Append(rtc_pc,
                                [owner |-> sess[1],
                                 connectionState |-> IF raises THEN "new"
                                                     ELSE "connected"])
            /\ peer_connections' = peer_connections \cup {Len(rtc_pc) + 1}
            /\ rtc_last' = [op |-> "webrtc_offer", sess |-> sess,
                            status |-> IF raises THEN 500 ELSE 200]

\* on_connectionstatechange, lines 668-676, after the transport of pc failed.
on_connectionstatechange(pc) ==
    /\ pc \in DOMAIN rtc_pc
    /\ rtc_pc[pc].connectionState = "connected"
    /\ rtc_pc' = [rtc_pc EXCEPT ![pc].connectionState = "closed"]
    /\ peer_connections' = peer_connections \ {pc}
    /\ UNCHANGED rtc_last

\* webrtc_close, lines 697-720.
webrtc_close(sess) ==
    IF sess = <<>>
    THEN /\ rtc_last' = [op |-> "webrtc_close", sess |-> sess, status |-> 302]
         /\ UNCHANGED <<peer_connections, rtc_pc>>
    ELSE /\ rtc_pc' = [pc \in DOMAIN rtc_pc |->
                          IF pc \in peer_connections
                          THEN [rtc_pc[pc] EXCEPT !.connectionState = "closed"]
                          ELSE rtc_pc[pc]]
         /\ peer_connections' = {}
         /\ rtc_last' = [op |-> "webrtc_close", sess |-> sess, status |-> 200]

(***************************************************************************)
(* The camera manager driven directly by acquire_vr / release_vr calls.    *)
(***************************************************************************)
CamInit ==
    /\ cm = CameraManager_init
    /\ cmCalls = 0

CallAcquireVr ==
    /\ cmCalls < MaxCmCalls
    /\ cm' = acquire_vr(cm)
    /\ cmCalls' = cmCalls + 1

CallAcquireVrRaises ==
    /\ cmCalls < MaxCmCalls
    /\ cm.camera_left_proc = None
    /\ cm' = acquire_vr_raises(cm)
    /\ cmCalls' = cmCalls + 1

CallReleaseVr ==
    /\ cmCalls < MaxCmCalls
    /\ cm' = release_vr(cm)
    /\ cmCalls' = cmCalls + 1


\* The camera, signaling and credential-store specifications run with one
\* PyJWT release and one GPS configuration; the token and the recording
\* specifications start from every one.
Init ==
    /\ CamInit /\ OfferInit /\ SigInit /\ UserInit
    /\ AuthInit("float_now", {"JWT_SECRET", "JWT_EXPIRE_MINUTES"})
    /\ RecInit(TRUE, TRUE) /\ ExtraInit

InitAuth ==
    /\ CamInit /\ OfferInit /\ SigInit /\ UserInit
    /\ \E build \in PyJWTBuilds, env \in SUBSET {"JWT_SECRET", "JWT_EXPIRE_MINUTES"} :
          AuthInit(build, env)
    /\ RecInit(TRUE, TRUE) /\ ExtraInit

InitRec ==
    /\ CamInit /\ OfferInit /\ SigInit /\ UserInit
    /\ AuthInit("float_now", {"JWT_SECRET", "JWT_EXPIRE_MINUTES"})
    /\ \E enabled \in BOOLEAN, available \in BOOLEAN : RecInit(enabled, available)
    /\ ExtraInit

(***************************************************************************)
(* The specifications: each drives one part of the program and leaves the  *)
(* state of the other parts alone.                                         *)
(***************************************************************************)
camRest   == <<offerVars, sigVars, userVars, authVars, recVars, extraVars>>
offerRest == <<cmCalls, sigVars, userVars, authVars, recVars, extraVars>>
sigRest   == <<camVars, offerVars, userVars, authVars, recVars, extraVars>>
userRest  == <<camVars, offerVars, sigVars, authVars, recVars, extraVars>>
authRest  == <<camVars, offerVars, sigVars, recVars, extraVars>>
recRest   == <<camVars, offerVars, sigVars, userVars, authVars, extraVars>>
amRest    == <<camVars, offerVars, sigVars, userVars, authVars, recVars, streamVars,
               environ, rtcVars, inflight, sftp, mail>>
rtcRest   == <<camVars, offerVars, sigVars, userVars, authVars, recVars, streamVars,
               environ, am_users, am_constructed, am_now, am_issued, am_salts,
               am_dead, am_last, inflight, sftp, mail>>
streamRest == <<camVars, offerVars, sigVars, userVars, authVars, recVars, environ,
                rtcVars, am_users, am_constructed, am_now, am_issued, am_salts, am_dead, am_last,
                inflight, sftp, mail>>

NextCam ==
    \/ CallAcquireVr /\ UNCHANGED camRest
    \/ CallAcquireVrRaises /\ UNCHANGED camRest
    \/ CallReleaseVr /\ UNCHANGED camRest

SpecCam == Init /\ [][NextCam]_vars

\* The camera manager driven by acquire_vr, release_vr and stop_all calls.
NextCamAll ==
    \/ NextCam
    \/ /\ cmCalls < MaxCmCalls
       /\ cm' = stop_all(cm)
       /\ cmCalls' = cmCalls + 1
       /\ UNCHANGED camRest

SpecCamAll == Init /\ [][NextCamAll]_vars

NextOffer ==
    \/ \E i \in Peers, authed \in BOOLEAN, body \in Bodies, ctorRaises \in BOOLEAN :
          OfferBegin(i, authed, body, ctorRaises) /\ UNCHANGED offerRest
    \/ \E i \in Peers, ok \in BOOLEAN : OfferSetRemote(i, ok) /\ UNCHANGED offerRest
    \/ \E i \in Peers, ok \in BOOLEAN : OfferCreateAnswer(i, ok) /\ UNCHANGED offerRest
    \/ \E i \in Peers, ok \in BOOLEAN : OfferSetLocal(i, ok) /\ UNCHANGED offerRest
    \/ \E i \in Peers, s \in {"connecting", "connected", "failed", "closed"} :
          TransportEvent(i, s) /\ UNCHANGED offerRest
    \/ \E i \in Peers : OnStateChangeStart(i) /\ UNCHANGED offerRest
    \/ \E i \in Peers : OnStateChangeResume(i) /\ UNCHANGED offerRest
    \/ ShutdownBegin /\ UNCHANGED offerRest
    \/ \E i \in Peers : ShutdownClose(i) /\ UNCHANGED offerRest
    \/ ShutdownClear /\ UNCHANGED offerRest

SpecOffer == Init /\ [][NextOffer]_vars

NextSig ==
    \/ \E i \in Peers, body \in Bodies, camOk \in BOOLEAN :
          sig_offer_begin(i, body, camOk) /\ UNCHANGED sigRest
    \/ \E i \in Peers, ok \in BOOLEAN :
          sig_offer_step(i, ok) /\ UNCHANGED sigRest
    \/ \E i \in Peers, s \in {"connecting", "connected", "failed", "closed"} :
          sig_transport_event(i, s) /\ UNCHANGED sigRest
    \/ sig_on_shutdown_begin /\ UNCHANGED sigRest
    \/ \E i \in Peers : sig_on_shutdown_close(i) /\ UNCHANGED sigRest
    \/ sig_on_shutdown_clear /\ UNCHANGED sigRest

SpecSig == Init /\ [][NextSig]_vars

NextUsers ==
    \/ \E pwG \in AdminPasswords, pwD \in AdminPasswords :
          Startup(pwG, pwD) /\ UNCHANGED userRest
    \/ \E username \in UserNames, password \in RegisterPasswords :
          Register(username, password) /\ UNCHANGED userRest
    \/ \E auth \in Auths, id \in BodyIds :
          AdminDelete(auth, id) /\ UNCHANGED userRest
    \/ \E auth \in Auths, id \in BodyIds,
          username \in UpdateNames, password \in UpdatePasswords :
          AdminUpdate(auth, id, username, password) /\ UNCHANGED userRest

SpecUsers == Init /\ [][NextUsers]_vars

(***************************************************************************)
(* server.py, requests in flight.  web.run_app (line 566) serves every     *)
(* request on one event loop of one process.  register (line 422),         *)
(* admin_delete (line 494) and admin_update (line 505) each suspend once,  *)
(* at await request.json(), before they touch the database; everything     *)
(* after that await is synchronous sqlite3 code, so the loop runs it to    *)
(* the response without switching to another request.  inflight holds the  *)
(* requests suspended at that await (an admin request is there only after  *)
(* require_auth let it through).                                           *)
(***************************************************************************)
Resume_unchecked(req) ==
    /\ req \in inflight
    /\ inflight' = inflight \ {req}
    /\ CASE req.op = "register" ->
               /\ started
               /\ next_id <= MaxId
               /\ users' = Append(users,
                              [id |-> next_id,
                               username |-> fernet_encrypt(next_id, req.username),
                               password_hash |-> hash_pw(req.password),
                               is_admin |-> 0])
               /\ next_id' = next_id + 1
               /\ supplied' = [supplied EXCEPT ![next_id] = req.password]
               /\ ulast' = Response("register", 200, "User created", "none", TRUE)
               /\ UNCHANGED started
         [] req.op = "admin_delete" -> AdminDelete("payload", req.id)
         [] req.op = "admin_update" ->
               AdminUpdate("payload", req.id, req.username, req.password)

\* The rest of register (423-429), admin_delete (495-499) and admin_update
\* (506-517) once the loop resumes the request with its body.
Resume(req) ==
    /\ req \in inflight
    /\ inflight' = inflight \ {req}
    /\ CASE req.op = "register" -> Register(req.username, req.password)
         [] req.op = "admin_delete" -> AdminDelete("payload", req.id)
         [] req.op = "admin_update" ->
               AdminUpdate("payload", req.id, req.username, req.password)

\* Requests arrive while others are suspended; the loop resumes them in any
\* order.
NextConc ==
    \/ /\ ~started
       /\ Startup(<<"a", "1">>, <<>>)
       /\ UNCHANGED userRest
    \/ \E req \in
            {[op |-> "register", id |-> <<>>, username |-> n, password |-> <<"p", "1">>] :
                 n \in {<<"b">>, <<"B">>}}
            \cup {[op |-> "admin_delete", id |-> <<n>>, username |-> <<>>,
                   password |-> <<>>] : n \in 2..MaxId}
            \cup {[op |-> "admin_update", id |-> <<n>>, username |-> <<"c", " ">>,
                   password |-> <<>>] : n \in 2..MaxId} :
          /\ started
          /\ Cardinality(inflight) < MaxInflight
          /\ req \notin inflight
          /\ inflight' = inflight \cup {req}
          /\ UNCHANGED <<camVars, offerVars, sigVars, userVars, authVars, recVars,
                         am_users, am_constructed, am_now, am_issued, am_salts,
                         am_dead, am_last, streamVars, environ, rtcVars, sftp, mail>>
    \/ \E req \in inflight :
          /\ Resume(req)
          /\ UNCHANGED <<camVars, offerVars, sigVars, authVars, recVars,
                         am_users, am_constructed, am_now, am_issued, am_salts,
                         am_dead, am_last, streamVars, environ, rtcVars, sftp, mail>>

SpecConc == Init /\ [][NextConc]_vars

(***************************************************************************)
(* sftp_uploader.py upload_file and email_sender.py _send_email.  Both     *)
(* are called with the default retry_count (lines 325, 129 and 396).  pc   *)
(* is "idle" before the first call, "loop" inside the for loop and         *)
(* "returned" after a return; attempt counts the loop iterations entered   *)
(* by the current call; ret is <<success>> once returned.                  *)
(***************************************************************************)
retry_count == 3

\* upload_file, lines 186-289.  A call (exists: os.path.exists(local_path),
\* lines 199-200) and then one loop iteration per step.  outcome is what
\* the iteration meets: "connect_failed" (connect returns failure, lines
\* 224-227, only when not connected), "ok" (put succeeds, line 266),
\* "io_error" or "error" (put raises, lines 268-286).  close_raises: the
\* close inside disconnect raises, which leaves is_connected set (173-184).
upload_file(exists, outcome, close_raises) ==
    IF sftp.pc # "loop"
    THEN sftp' = IF exists
                 THEN [sftp EXCEPT !.pc = "loop", !.attempt = 0, !.ret = <<>>]
                 ELSE [sftp EXCEPT !.pc = "returned", !.attempt = 0, !.ret = <<FALSE>>]
    ELSE IF sftp.attempt = retry_count
    THEN sftp' = [sftp EXCEPT !.pc = "returned", !.ret = <<FALSE>>]
    ELSE IF outcome = "connect_failed"
    THEN /\ ~sftp.is_connected
         /\ sftp' = [sftp EXCEPT !.pc = "returned", !.attempt = @ + 1,
                                 !.ret = <<FALSE>>]
    ELSE IF outcome = "ok"
    THEN sftp' = [sftp EXCEPT !.pc = "returned", !.attempt = @ + 1,
                              !.is_connected = TRUE, !.ret = <<TRUE>>]
    ELSE sftp' = [sftp EXCEPT !.attempt = @ + 1,
                              !.is_connected = close_raises]

\* _send_email, lines 302-370.  outcome: "ok" (line 343),
\* "auth_error" (SMTPAuthenticationError, lines 345-349), "smtp_error" or
\* "error" (lines 351-367).
send_email(outcome) ==
    IF mail.pc # "loop"
    THEN mail' = [pc |-> "loop", attempt |-> 0, ret |-> <<>>]
    ELSE IF mail.attempt = retry_count
    THEN mail' = [mail EXCEPT !.pc = "returned", !.ret = <<FALSE>>]
    ELSE IF outcome = "ok"
    THEN mail' = [mail EXCEPT !.pc = "returned", !.attempt = @ + 1, !.ret = <<TRUE>>]
    ELSE IF outcome = "auth_error"
    THEN mail' = [mail EXCEPT !.pc = "returned", !.attempt = @ + 1, !.ret = <<FALSE>>]
    ELSE mail' = [mail EXCEPT !.attempt = @ + 1]

NextRetry ==
    \/ \E exists \in BOOLEAN, close_raises \in BOOLEAN,
          outcome \in {"connect_failed", "ok", "io_error", "error"} :
          /\ upload_file(exists, outcome, close_raises)
          /\ UNCHANGED <<camVars, offerVars, sigVars, userVars, authVars, recVars,
                         am_users, am_constructed, am_now, am_issued, am_salts,
                         am_dead, am_last, streamVars, environ, rtcVars, inflight,
                         mail>>
    \/ \E outcome \in {"ok", "auth_error", "smtp_error", "error"} :
          /\ send_email(outcome)
          /\ UNCHANGED <<camVars, offerVars, sigVars, userVars, authVars, recVars,
                         am_users, am_constructed, am_now, am_issued, am_salts,
                         am_dead, am_last, streamVars, environ, rtcVars, inflight,
                         sftp>>

SpecRetry == Init /\ [][NextRetry]_vars

NextAuth ==
    \/ Startup(<<"a", "1">>, <<>>) /\ UNCHANGED <<authRest, authVars>>
    \/ Register(<<"b">>, <<"p", "1">>) /\ UNCHANGED <<authRest, authVars>>
    \/ \E username \in {<<"b">>, Admin_G}, password \in {<<"p", "1">>, <<"a", "1">>} :
          Login(username, password) /\ UNCHANGED <<authRest, userVars>>
    \/ \E header \in Headers : AdminUsers(header) /\ UNCHANGED <<authRest, userVars>>
    \/ Tick /\ UNCHANGED <<authRest, userVars>>

SpecAuth == InitAuth /\ [][NextAuth]_vars

(***************************************************************************)
(* server.py, tokens and the credential store together.  offer (line 437)  *)
(* is the route that calls require_auth without admin_required; alast      *)
(* keeps what it decided (ran: the request got past line 438) and what     *)
(* the header carried.  admin_delete and admin_update are the requests of  *)
(* an administrator, auth being what require_auth returned to them.  The   *)
(* offers sent here carry a body without "sdp" or without JSON at all, so  *)
(* that the handler ends before its first await (lines 441-456); one       *)
(* offer is followed.                                                      *)
(***************************************************************************)
\* offer, lines 434-460, from the Authorization header on.
offer(i, header, body, ctorRaises) ==
    LET user == require_auth(header, FALSE, now)
    IN  /\ started
        /\ OfferBegin(i, user # <<>>, body, ctorRaises)
        /\ alast' = AuthResponse("offer", peer'[i].status, "", <<>>, user # <<>>,
                                 Credential(header, now))
        /\ UNCHANGED <<now, pyjwt, issued>>

NextAuthStore ==
    \/ Startup(<<"a", "1">>, <<>>) /\ UNCHANGED <<authRest, authVars>>
    \/ Register(<<"b">>, <<"p", "1">>) /\ UNCHANGED <<authRest, authVars>>
    \/ \E password \in {<<"p", "1">>, <<"p", "2">>} :
          Login(<<"b">>, password) /\ UNCHANGED <<authRest, userVars>>
    \/ \E n \in UserIds : AdminDelete("payload", <<n>>) /\ UNCHANGED userRest
    \/ \E n \in UserIds :
          AdminUpdate("payload", <<n>>, <<>>, <<"p", "2">>) /\ UNCHANGED userRest
    \/ \E body \in {b \in Bodies : ~b.sdp /\ ~b.vr},
          header \in {<<Lit("")>>}
                     \cup {<<Lit("Bearer"), Jwt(tok)>> : tok \in PresentedTokens} :
          /\ offer(1, header, body, FALSE)
          /\ UNCHANGED <<cmCalls, sigVars, userVars, recVars, extraVars>>
    \/ Tick /\ UNCHANGED <<authRest, userVars>>

SpecAuthStore == Init /\ [][NextAuthStore]_vars

NextRec ==
    \/ \E sess \in Sessions, storage \in Storages, raises \in BOOLEAN :
          AdminStartRecordingBegin(sess, storage, raises) /\ UNCHANGED <<recRest, gpsctl, conv>>
    \/ AdminStartRecordingReturn /\ UNCHANGED <<recRest, gpsctl, conv>>
    \/ \E sess \in Sessions, raises \in BOOLEAN, upload \in {"off", "ok", "failed"},
          gps_step \in {"ok", "stop_failed", "export_failed"} :
          AdminStopRecording(sess, raises, upload, gps_step) /\ UNCHANGED <<recRest, gpsctl, conv>>
    \/ \E sess \in Sessions, raises \in BOOLEAN :
          AdminSystemRestart(sess, raises) /\ UNCHANGED <<recRest, gpsctl, conv>>
    \/ RecTick /\ UNCHANGED <<recRest, gpsctl, conv>>

SpecRec == InitRec /\ [][NextRec]_vars

(***************************************************************************)
(* gps.py route tracking: start_tracking (208-240), the _tracking_loop     *)
(* threads (242-287) and stop_tracking (289-334), called one at a time     *)
(* (the handlers call them under recording_lock).  gpsctl.loops holds per  *)
(* thread made "check" (about to test the while condition of line 249),    *)
(* "sleeping" (in time.sleep(track_interval), lines 283 and 287, or        *)
(* waiting for gpsd in get_current_position) or "exited".  The disjuncts:  *)
(* start_tracking; a loop thread tests the condition and appends a point   *)
(* or leaves; a sleeping thread wakes; stop_tracking clears                *)
(* gps_thread_running (301); its join of gps_thread (303) returns, because *)
(* the thread has exited or because the 5 seconds are over while the       *)
(* thread still sleeps, and is_tracking is cleared (319).                  *)
(***************************************************************************)
NextGps ==
    \/ /\ ~gpsctl.stopping /\ ~gps.is_tracking /\ gps.is_connected
       /\ Len(gpsctl.loops) < MaxLoops
       /\ gps' = start_tracking(gps)
       /\ gpsctl' = [gpsctl EXCEPT !.gps_thread_running = TRUE,
                                   !.loops = Append(@, "check"),
                                   !.track_points = {}]
       /\ UNCHANGED <<camera, current_recording, recording_lock, rclock, rlast,
                      ractive, uploaded, conv, recRest>>
    \/ \E k \in DOMAIN gpsctl.loops :
          /\ gpsctl.loops[k] = "check"
          /\ gpsctl' = IF gpsctl.gps_thread_running /\ gps.is_tracking
                        THEN [gpsctl EXCEPT !.loops[k] = "sleeping",
                                            !.track_points = @ \cup {k}]
                        ELSE [gpsctl EXCEPT !.loops[k] = "exited"]
          /\ UNCHANGED <<camera, current_recording, gps, recording_lock, rclock,
                         rlast, ractive, uploaded, conv, recRest>>
    \/ \E k \in DOMAIN gpsctl.loops :
          /\ gpsctl.loops[k] = "sleeping"
          /\ gpsctl' = [gpsctl EXCEPT !.loops[k] = "check"]
          /\ UNCHANGED <<camera, current_recording, gps, recording_lock, rclock,
                         rlast, ractive, uploaded, conv, recRest>>
    \/ /\ gps.is_tracking /\ ~gpsctl.stopping
       /\ gpsctl' = [gpsctl EXCEPT !.gps_thread_running = FALSE, !.stopping = TRUE]
       /\ UNCHANGED <<camera, current_recording, gps, recording_lock, rclock,
                      rlast, ractive, uploaded, conv, recRest>>
    \/ /\ gpsctl.stopping
       /\ gpsctl.loops[Len(gpsctl.loops)] \in {"exited", "sleeping"}
       /\ gps' = stop_tracking(gps)
       /\ gpsctl' = [gpsctl EXCEPT !.stopping = FALSE]
       /\ UNCHANGED <<camera, current_recording, recording_lock, rclock, rlast,
                      ractive, uploaded, conv, recRest>>

SpecGps == Init /\ [][NextGps]_vars

(***************************************************************************)
(* camera_stream.py, the shapes of the arrays a _camera_worker handles.    *)
(* A shape is the tuple numpy reports, (rows, columns) or (rows, columns,  *)
(* channels); Raised stands for a call that raised.  The target sizes are  *)
(* even, as the sizes of a 4:2:0 sensor mode are.                          *)
(***************************************************************************)
MaxHalfHeight == 3
MaxHalfWidth == 1

Raised == <<>>

ColorConverts ==
    {"auto", "none", "rgb2bgr", "bgr2rgb", "rgba2bgr", "bgra2bgr", "yuv420", "other"}

\* picam.capture_array(), line 194: what the configured format delivers.
capture_array(layout, height, width) ==
    CASE layout = "three_channel" -> <<height, width, 3>>
      [] layout = "four_channel" -> <<height, width, 4>>
      [] layout = "yuv420" -> <<(3 * height) \div 2, width>>

\* _convert_frame, lines 135-161.  cv2.cvtColor with COLOR_YUV2BGR_I420
\* takes one channel with rows divisible by 3 and an even number of
\* columns and returns two thirds of the rows in 3 channels; with
\* COLOR_RGBA2BGR or COLOR_BGRA2BGR it takes 3 or 4 channels and returns 3;
\* frame[:, :, ::-1] needs three dimensions and keeps the shape.  The
\* branch on pixel_format_upper (line 140) picks between two codes of the
\* second kind.
convert_frame(frame, color_convert, swap_rb) ==
    LET i420 == IF Len(frame) = 2 /\ frame[1] % 3 = 0 /\ frame[2] % 2 = 0
                THEN <<(2 * frame[1]) \div 3, frame[2], 3>>
                ELSE Raised
        to_bgr == IF Len(frame) = 3 /\ frame[3] \in {3, 4}
                  THEN <<frame[1], frame[2], 3>>
                  ELSE Raised
        reversed == IF Len(frame) = 3 THEN frame ELSE Raised
    IN  IF color_convert = "auto"
        THEN IF Len(frame) = 2 THEN i420
             ELSE IF frame[3] = 4 THEN to_bgr
             ELSE IF swap_rb THEN reversed
             ELSE frame
        ELSE IF color_convert = "none"
        THEN IF swap_rb THEN reversed ELSE frame
        ELSE IF color_convert \in {"rgb2bgr", "bgr2rgb"} THEN reversed
        ELSE IF color_convert \in {"rgba2bgr", "bgra2bgr"} THEN to_bgr
        ELSE IF color_convert = "yuv420" THEN i420
        ELSE IF swap_rb THEN reversed
        ELSE frame

\* Lines 194-198 of the worker's loop: cv2.resize, line 196, returns the
\* requested rows and columns and keeps the channels.
frame_pipeline(frame, height, width, color_convert, swap_rb) ==
    LET resized == IF frame[1] # height \/ frame[2] # width
                   THEN IF Len(frame) = 2 THEN <<height, width>>
                        ELSE <<height, width, frame[3]>>
                   ELSE frame
    IN  convert_frame(resized, color_convert, swap_rb)

\* np.copyto(shared_frame, frame), line 200, broadcasts frame to the shape
\* of shared_frame or raises ValueError.
copyto_accepts(dst, src) ==
    /\ src # Raised
    /\ Len(src) <= Len(dst)
    /\ \A k \in 1..Len(src) :
          src[Len(src) - k + 1] \in {1, dst[Len(dst) - k + 1]}

\* The worker is started with its arguments (CameraProcess.__init__, line
\* 238), then runs one loop iteration per step on a frame of the layout the
\* sensor delivers; an exception ends the loop (there is no except clause,
\* lines 193-206).
NextConv ==
    \/ /\ conv.pc = "unset"
       /\ \E color_convert \in ColorConverts, swap_rb \in BOOLEAN,
             hh \in 1..MaxHalfHeight, hw \in 1..MaxHalfWidth :
             conv' = [pc |-> "loop", color_convert |-> color_convert,
                      swap_rb |-> swap_rb, height |-> 2 * hh, width |-> 2 * hw,
                      frame |-> <<>>, out |-> <<>>]
       /\ UNCHANGED <<camera, current_recording, gps, recording_lock, rclock, rlast,
                      ractive, uploaded, gpsctl, recRest>>
    \/ /\ conv.pc = "loop"
       /\ \E layout \in {"three_channel", "four_channel", "yuv420"} :
             LET frame == capture_array(layout, conv.height, conv.width)
                 out == frame_pipeline(frame, conv.height, conv.width,
                                       conv.color_convert, conv.swap_rb)
             IN  conv' = [conv EXCEPT
                            !.frame = frame, !.out = out,
                            !.pc = IF copyto_accepts(<<conv.height, conv.width, 3>>, out)
                                   THEN "loop" ELSE "raised"]
       /\ UNCHANGED <<camera, current_recording, gps, recording_lock, rclock, rlast,
                      ractive, uploaded, gpsctl, recRest>>

SpecConv == Init /\ [][NextConv]_vars

(***************************************************************************)
(* The AuthManager store driven through its public methods.                *)
(***************************************************************************)
\* The first disjunct is __init__ (lines 36-51): init_database, then
\* create_default_admins (lines 89-113), which force-creates both
\* administrators.  A token's name is its index in am_issued; 0 is a token
\* that no login ever draws.  A caller holds only tokens drawn so far.
NextAM ==
    \/ /\ ~am_constructed /\ am_salts + 2 <= MaxSalts
       /\ LET g == AuthManager_create_user(am_users, "Admin_G", "admin1234", TRUE,
                                           <<>>, TRUE, am_salts + 1)
              d == AuthManager_create_user(g.tbl, "Admin_D", "123456789", TRUE,
                                           <<>>, TRUE, am_salts + 2)
          IN  /\ am_users' = d.tbl
              /\ am_last' = [op |-> "__init__", arg |-> <<>>, ret |-> <<>>]
       /\ am_constructed' = TRUE
       /\ am_salts' = am_salts + 2
       /\ UNCHANGED <<am_now, am_issued, am_dead, amRest>>
    \/ /\ am_constructed /\ am_salts < MaxSalts
       /\ \E username \in {"Admin_G", "u"}, is_admin \in BOOLEAN,
             email \in {<<>>, <<"e">>} :
             LET r == AuthManager_create_user(am_users, username, "p", is_admin,
                                              email, FALSE, am_salts + 1)
             IN  /\ am_users' = r.tbl
                 /\ am_salts' = IF r.ret[1] THEN am_salts + 1 ELSE am_salts
                 /\ am_last' = [op |-> "create_user", arg |-> username, ret |-> r.ret]
       /\ UNCHANGED <<am_constructed, am_now, am_issued, am_dead, amRest>>
    \/ /\ am_constructed
       /\ \E username \in {"Admin_G", "Admin_D", "u"} :
             LET r == AuthManager_delete_user(am_users, username)
             IN  /\ am_users' = r.tbl
                 /\ am_last' = [op |-> "delete_user", arg |-> username, ret |-> r.ret]
       /\ UNCHANGED <<am_constructed, am_now, am_issued, am_salts, am_dead, amRest>>
    \/ /\ am_constructed /\ am_salts < MaxSalts
       /\ \E username \in {"Admin_G", "u"}, new_password \in {"admin1234", "p"} :
             LET r == change_password(am_users, username, new_password, am_salts + 1)
             IN  /\ am_users' = r.tbl
                 /\ am_last' = [op |-> "change_password", arg |-> username,
                                ret |-> r.ret]
       /\ am_salts' = am_salts + 1
       /\ UNCHANGED <<am_constructed, am_now, am_issued, am_dead, amRest>>
    \/ /\ am_constructed
       /\ \E username \in {"Admin_D", "u"}, email \in {<<>>, <<"e">>} :
             LET r == update_user_email(am_users, username, email)
             IN  /\ am_users' = r.tbl
                 /\ am_last' = [op |-> "update_user_email", arg |-> username,
                                ret |-> r.ret]
       /\ UNCHANGED <<am_constructed, am_now, am_issued, am_salts, am_dead, amRest>>

SpecAM == Init /\ [][NextAM]_vars

\* The session methods of the AuthManager, over the accounts its
\* constructor and create_user / delete_user of one further user leave.
NextSession ==
    \/ /\ ~am_constructed /\ am_salts + 2 <= MaxSalts
       /\ LET g == AuthManager_create_user(am_users, "Admin_G", "admin1234", TRUE,
                                           <<>>, TRUE, am_salts + 1)
              d == AuthManager_create_user(g.tbl, "Admin_D", "123456789", TRUE,
                                           <<>>, TRUE, am_salts + 2)
          IN  /\ am_users' = d.tbl
              /\ am_last' = [op |-> "__init__", arg |-> <<>>, ret |-> <<>>]
       /\ am_constructed' = TRUE
       /\ am_salts' = am_salts + 2
       /\ UNCHANGED <<am_now, am_issued, am_dead, amRest>>
    \/ /\ am_constructed /\ am_salts < MaxSalts
       /\ \E username \in {"u"} :
             LET r == AuthManager_create_user(am_users, username, "p", FALSE,
                                              <<>>, FALSE, am_salts + 1)
             IN  /\ am_users' = r.tbl
                 /\ am_salts' = IF r.ret[1] THEN am_salts + 1 ELSE am_salts
                 /\ am_last' = [op |-> "create_user", arg |-> username, ret |-> r.ret]
       /\ UNCHANGED <<am_constructed, am_now, am_issued, am_dead, amRest>>
    \/ /\ am_constructed
       /\ \E username \in {"u"} :
             LET r == AuthManager_delete_user(am_users, username)
             IN  /\ am_users' = r.tbl
                 /\ am_last' = [op |-> "delete_user", arg |-> username, ret |-> r.ret]
       /\ UNCHANGED <<am_constructed, am_now, am_issued, am_salts, am_dead, amRest>>
    \/ /\ am_constructed /\ Len(am_issued) < MaxSessions
       /\ \E username \in {"Admin_G", "u"}, password \in {"admin1234", "p"} :
             LET token == Len(am_issued) + 1
                 r == authenticate_user(am_users, username, password, token, am_now)
             IN  /\ am_users' = r.tbl
                 /\ am_issued' = IF r.ret = <<>> THEN am_issued
                                 ELSE Append(am_issued,
                                             [user |-> username, at |-> am_now,
                                              is_admin |-> r.ret[1].is_admin])
                 /\ am_last' = [op |-> "authenticate_user", arg |-> username,
                                ret |-> r.ret]
       /\ UNCHANGED <<am_constructed, am_now, am_salts, am_dead, amRest>>
    \/ /\ am_constructed
       /\ \E session_token \in {<<>>} \cup {<<k>> : k \in 0..Len(am_issued)} :
             LET r == verify_session(am_users, session_token, am_now)
             IN  /\ am_users' = r.tbl
                 /\ am_dead' = IF r.tbl # am_users THEN am_dead \cup {session_token[1]}
                               ELSE am_dead
                 /\ am_last' = [op |-> "verify_session", arg |-> session_token,
                                ret |-> r.ret]
       /\ UNCHANGED <<am_constructed, am_now, am_issued, am_salts, amRest>>
    \/ /\ am_constructed
       /\ \E session_token \in {<<k>> : k \in 0..Len(am_issued)} :
             LET r == logout_user(am_users, session_token)
             IN  /\ am_users' = r.tbl
                 /\ am_dead' = am_dead \cup ({session_token[1]} \ {0})
                 /\ am_last' = [op |-> "logout_user", arg |-> session_token,
                                ret |-> r.ret]
       /\ UNCHANGED <<am_constructed, am_now, am_issued, am_salts, amRest>>
    \/ /\ am_now < MaxAmNow
       /\ am_now' = am_now + 1
       /\ UNCHANGED <<am_users, am_constructed, am_issued, am_salts, am_dead, am_last, amRest>>

SpecSession == Init /\ [][NextSession]_vars

(***************************************************************************)
(* One CameraProcess: its worker and the tracks made from it.              *)
(***************************************************************************)
\* The last disjuncts are CameraProcess.stop, lines 268-282: it sets
\* stop_event and joins the worker for 2 s; a worker that has exited or
\* died is joined; one still alive is terminated where it stands, and a terminated
\* process releases no multiprocessing lock it holds.
NextStream ==
    \/ camera_worker /\ UNCHANGED streamRest
    \/ /\ camproc = "started"
       /\ camproc' = "stop_set"
       /\ UNCHANGED <<shared_frame, lock, worker, track, got, streamRest>>
    \/ /\ camproc = "stop_set"
       /\ IF worker.pc \in {"exited", "open_failed", "capture_failed"}
          THEN camproc' = "joined" /\ UNCHANGED worker
          ELSE /\ camproc' = "terminated"
               /\ worker' = [worker EXCEPT !.pc = "terminated"]
       /\ UNCHANGED <<shared_frame, lock, track, got, streamRest>>
    \/ \E t \in 1..NumTracks : recv(t) /\ UNCHANGED streamRest

SpecStream == Init /\ [][NextStream]_vars

(***************************************************************************)
(* The /webrtc routes of main_webrtc.py with two logged-in users.          *)
(***************************************************************************)
NextRtc ==
    \/ \E sess \in {<<>>, <<"a">>, <<"b">>}, raises \in BOOLEAN :
          webrtc_offer(sess, raises) /\ UNCHANGED <<rtcRest, rtc_loop>>
    \/ \E pc \in 1..MaxPeers :
          on_connectionstatechange(pc) /\ UNCHANGED <<rtcRest, rtc_loop>>
    \/ \E sess \in {<<>>, <<"a">>, <<"b">>} :
          webrtc_close(sess) /\ UNCHANGED <<rtcRest, rtc_loop>>

SpecRtc == Init /\ [][NextRtc]_vars

(***************************************************************************)
(* webrtc_close (697-720) and the connection-state callbacks (668-676) as  *)
(* tasks of one event loop; cleanup_peer_connections (873-880) has the     *)
(* body of webrtc_close.  A task runs until it awaits.  rtc_loop.holder is *)
(* who holds webrtc_lock, a threading.Lock: "free" or "close"; todo is     *)
(* what is left of list(peer_connections); awaiting is <<pc>> while the    *)
(* coroutine is suspended in pc.close(); tasks are the peers with a        *)
(* callback task scheduled; blocked: the loop's thread is inside a         *)
(* blocking acquire of webrtc_lock, so that no task of the loop runs.      *)
(* The disjuncts: POST /webrtc/offer; the transport of a peer fails and    *)
(* its callback is scheduled; webrtc_close takes the lock and copies the   *)
(* set (705-706); it calls close on the next peer (707), which returns at  *)
(* once for a closed peer and otherwise closes it, emits                   *)
(* connectionstatechange and suspends; the awaited close returns; the      *)
(* loop is over, the set is cleared and the lock released (708); a         *)
(* scheduled callback runs (670-676) while no other task is running.       *)
(***************************************************************************)
NextRtcLoop ==
    \/ \E user \in {"a", "b"}, raises \in BOOLEAN :
          /\ rtc_loop.holder = "free" /\ ~rtc_loop.blocked
          /\ webrtc_offer(<<user>>, raises)
          /\ UNCHANGED <<rtcRest, rtc_loop>>
    \/ \E pc \in DOMAIN rtc_pc :
          /\ rtc_pc[pc].connectionState = "connected"
          /\ rtc_pc' = [rtc_pc EXCEPT ![pc].connectionState = "failed"]
          /\ rtc_loop' = [rtc_loop EXCEPT !.tasks = @ \cup {pc}]
          /\ UNCHANGED <<peer_connections, rtc_last, rtcRest>>
    \/ /\ rtc_loop.holder = "free" /\ ~rtc_loop.blocked
       /\ rtc_loop' = [rtc_loop EXCEPT !.holder = "close", !.todo = peer_connections]
       /\ rtc_last' = [op |-> "webrtc_close", sess |-> <<"a">>, status |-> 0]
       /\ UNCHANGED <<peer_connections, rtc_pc, rtcRest>>
    \/ \E pc \in rtc_loop.todo :
          /\ rtc_loop.holder = "close" /\ rtc_loop.awaiting = <<>> /\ ~rtc_loop.blocked
          /\ IF rtc_pc[pc].connectionState = "closed"
             THEN /\ rtc_loop' = [rtc_loop EXCEPT !.todo = @ \ {pc}]
                  /\ UNCHANGED rtc_pc
             ELSE /\ rtc_pc' = [rtc_pc EXCEPT ![pc].connectionState = "closed"]
                  /\ rtc_loop' = [rtc_loop EXCEPT !.awaiting = <<pc>>,
                                                  !.tasks = @ \cup {pc}]
          /\ UNCHANGED <<peer_connections, rtc_last, rtcRest>>
    \/ /\ rtc_loop.awaiting # <<>> /\ ~rtc_loop.blocked
       /\ rtc_loop' = [rtc_loop EXCEPT !.awaiting = <<>>,
                                       !.todo = @ \ {rtc_loop.awaiting[1]}]
       /\ UNCHANGED <<peer_connections, rtc_pc, rtc_last, rtcRest>>
    \/ /\ rtc_loop.holder = "close" /\ rtc_loop.awaiting = <<>> /\ ~rtc_loop.blocked
       /\ rtc_loop.todo = {}
       /\ peer_connections' = {}
       /\ rtc_loop' = [rtc_loop EXCEPT !.holder = "free"]
       /\ rtc_last' = [rtc_last EXCEPT !.status = 200]
       /\ UNCHANGED <<rtc_pc, rtcRest>>
    \/ \E pc \in rtc_loop.tasks :
          /\ ~rtc_loop.blocked
          /\ rtc_loop.holder = "free" \/ rtc_loop.awaiting # <<>>
          /\ rtc_pc' = [rtc_pc EXCEPT ![pc].connectionState = "closed"]
          /\ IF rtc_loop.holder = "free"
             THEN /\ peer_connections' = peer_connections \ {pc}
                  /\ rtc_loop' = [rtc_loop EXCEPT !.tasks = @ \ {pc}]
             ELSE /\ rtc_loop' = [rtc_loop EXCEPT !.tasks = @ \ {pc}, !.blocked = TRUE]
                  /\ UNCHANGED peer_connections
          /\ UNCHANGED <<rtc_last, rtcRest>>

SpecRtcLoop == Init /\ [][NextRtcLoop]_vars

(***************************************************************************)
(* Properties.                                                             *)
(***************************************************************************)
\* The on_state_change tasks of a server.py peer have all run to their end.
CallbacksDone(p) == p.cbQueued = 0 /\ p.cbInClose = 0

\* C1: for every peer created by POST /offer with vr=true, release_vr is
\* invoked exactly once over the peer's lifetime (state change to
\* failed/closed, exception in the handler, shutdown), and never for a
\* request whose acquire_vr did not run.
C1_ReleaseVrExactlyOnce ==
    \A i \in Peers :
        /\ peer[i].acquired = 0 => peer[i].released = 0
        /\ peer[i].released <= 1
        /\ ( /\ peer[i].acquired = 1
             /\ peer[i].hs = "done"
             /\ peer[i].isClosed
             /\ CallbacksDone(peer[i]) ) => peer[i].released = 1

C3_FailedOrClosedPeerRemoved ==
    /\ \A i \in pcs :
          (shut = "running" /\ peer[i].conn \in {"failed", "closed"}
             /\ CallbacksDone(peer[i])) => FALSE
    /\ \A i \in sig_pcs :
          (sig_shut = "running" /\ sig_peer[i].conn \in {"failed", "closed"}
             /\ CallbacksDone(sig_peer[i])) => FALSE

\* C4: when POST /offer answers 500 after the peer was allocated, the peer is
\* closed and no longer in pcs, and the request's acquire_vr is undone.
C4_FailedOfferUnwinds ==
    \A i \in Peers :
        (peer[i].status = 500 /\ peer[i].alloc) =>
            /\ peer[i].isClosed
            /\ i \notin pcs
            /\ peer[i].released = peer[i].acquired

\* The rows of the users table that are administrators: by flag or by a
\* decrypted name equal to a seeded name.
AdminRows == {k \in DOMAIN users : admin_locked(users[k])}

\* C5 (as the code has it): for any administrator record R, delete_user(R.id)
\* returns a bare False (the handler answers 404 "User not found or admin"),
\* update_user(R.id, any name, any password) returns (False, "admin_locked")
\* (the handler answers 403 "Admin locked"), and the users table is identical
\* before and after either call.
C5_AdminLocked ==
    /\ \A k \in AdminRows :
          /\ delete_user(users, users[k].id) = [ret |-> <<FALSE>>, tbl |-> users]
          /\ \A name \in {<<>>, <<"b">>, <<"z">>}, pw \in {<<>>, <<"p", "2">>} :
                update_user(users, users[k].id, name, pw)
                    = [ret |-> <<FALSE, "admin_locked">>, tbl |-> users]
    /\ (ulast.target = "admin" /\ ulast.op = "admin_delete") =>
          (ulast.status = 404 /\ ulast.text = "User not found or admin")
    /\ (ulast.target = "admin" /\ ulast.op = "admin_update") =>
          (ulast.status = 403 /\ ulast.text = "Admin locked")

\* C5 witness: both seeded administrators are stored and an admin-delete
\* request that addressed an administrator row has reached delete_user.
C5_Witness ==
    /\ Cardinality(AdminRows) = 2
    /\ ulast.op = "admin_delete"
    /\ ulast.target = "admin"
    /\ ulast.called

\* C5 as stated: for any administrator record R, delete_user(R.id) and
\* update_user(R.id, any name, any password) both fail with "admin_locked"
\* and leave the users table unchanged.
C5_AsStated ==
    \A k \in AdminRows :
        /\ delete_user(users, users[k].id)
               = [ret |-> <<FALSE, "admin_locked">>, tbl |-> users]
        /\ \A name \in {<<>>, <<"b">>, <<"z">>}, pw \in {<<>>, <<"p", "2">>} :
              update_user(users, users[k].id, name, pw)
                  = [ret |-> <<FALSE, "admin_locked">>, tbl |-> users]

\* C6: for any non-admin record R, check_user(R.name, pw) returns ok exactly
\* for the password the client sent in the most recent successful register
\* or admin-update request for R.
C6_LoginMatchesSuppliedPassword ==
    \A k \in DOMAIN users \ AdminRows :
        \A pw \in Passwords :
            check_user(users, fernet_decrypt(users[k].username), pw).ok
                <=> (pw = supplied[users[k].id])

\* C7: no two rows of the users table have decrypted usernames that are
\* equal under case-insensitive comparison.
C7_NamesUniqueIgnoringCase ==
    \A k, j \in DOMAIN users :
        (lower(fernet_decrypt(users[k].username))
            = lower(fernet_decrypt(users[j].username))) => k = j

\* C8 (as the code has it): the exp of a token issued by create_token is the
\* issue time plus JWT_EXPIRE_MINUTES truncated to whole seconds;
\* decode_token returns the token's payload whenever the current time is
\* before exp, and None whenever the current time is a full second or more
\* past exp (within the second that starts at exp the outcome depends on the
\* installed PyJWT release) and for every token whose signature does not
\* verify under JWT_SECRET.
C8_TokenValidity ==
    \A e \in issued :
        LET payload == e.token.payload
        IN  /\ payload.exp = utc_seconds(e.at + ExpireTicks)
            /\ now < payload.exp * TicksPerSecond =>
                  decode_token(Jwt(e.token), now) = <<payload>>
            /\ now >= (payload.exp + 1) * TicksPerSecond =>
                  decode_token(Jwt(e.token), now) = <<>>
            /\ decode_token(Jwt(Tamper(e.token)), now) = <<>>
            /\ decode_token(Jwt(Forge(e.token)), now) = <<>>

\* C8 witness: a token issued between two whole seconds has been presented
\* to an admin route more than a second after its exp and was found expired.
C8_Witness ==
    /\ alast.op = "admin_users"
    /\ alast.cred = "expired"
    /\ \E e \in issued :
          /\ e.at % TicksPerSecond # 0
          /\ now >= (e.token.payload.exp + 1) * TicksPerSecond

\* C8 as stated: decode_token returns the payload of an issued token exactly
\* while the current time has not passed issue time plus JWT_EXPIRE_MINUTES,
\* and None for every token whose signature does not verify.
C8_AsStated ==
    \A e \in issued :
        /\ (decode_token(Jwt(e.token), now) = <<e.token.payload>>)
              <=> (now <= e.at + ExpireTicks)
        /\ decode_token(Jwt(Tamper(e.token)), now) = <<>>
        /\ decode_token(Jwt(Forge(e.token)), now) = <<>>

\* C9: an admin-gated route answers 401 when the credential is absent,
\* malformed, badly signed or expired, and 403 when the credential is valid
\* but does not carry the admin flag; the handler body runs in neither case.
C9_AdminGateStatus ==
    alast.op = "admin_users" =>
        /\ alast.cred \in {"absent", "malformed", "bad_signature", "expired"} =>
              (alast.status = 401 /\ ~alast.ran)
        /\ alast.cred = "not_admin" => (alast.status = 403 /\ ~alast.ran)

\* C10: after a recording start returned success and until stop_recording is
\* called, CameraController.start_recording fails with "Es läuft bereits
\* eine Aufnahme" and changes nothing, every /admin/start-recording request
\* that reaches the handler is answered 400 "Aufnahme läuft bereits", and
\* the active recording's path and start time, in the camera and in
\* current_recording, stay as the successful start set them.
C10_StartWhileRecordingRefused ==
    /\ ractive.on =>
          /\ camera.is_recording
          /\ camera.current_recording_path = ractive.path
          /\ camera.recording_start_time = ractive.start
          /\ ~recording_lock.held => current_recording = ractive.info
          /\ \A t \in 0..MaxRecClock, raises \in BOOLEAN :
                start_recording(camera, generate_full_recording_path(t), t, raises)
                    = [ret |-> <<FALSE, "Es läuft bereits eine Aufnahme">>,
                       cam |-> camera]
    /\ (rlast.op = "admin_start_recording" /\ rlast.active) =>
          (rlast.status = 400 /\ rlast.error = "Aufnahme läuft bereits")

\* C10 witness: a start request arrived after the clock had moved past the
\* start of a recording that is still active, and was refused.
C10_Witness ==
    /\ ractive.on
    /\ ~recording_lock.held
    /\ rclock > ractive.start[1]
    /\ rlast.op = "admin_start_recording"
    /\ rlast.active
    /\ rlast.status = 400

\* C11: a stop request that reaches the handler while no recording is active
\* (camera.is_recording is False) is answered 400 "Keine Aufnahme läuft" and
\* changes nothing: the camera's recording state, current_recording, the
\* GPS tracking state and the uploaded recordings are all as before.
C11_StopWhileIdleRefused ==
    [][ (/\ ~camera.is_recording
         /\ \E raises \in BOOLEAN, upload \in {"off", "ok", "failed"} :
               AdminStopRecording("admin", raises, upload, "ok"))
        => (/\ rlast'.op = "admin_stop_recording"
            /\ rlast'.status = 400
            /\ rlast'.error = "Keine Aufnahme läuft"
            /\ UNCHANGED <<camera, current_recording, gps, uploaded>>) ]_vars

\* C11 witness: a recording was made, stopped and uploaded while GPS stayed
\* connected, and a further stop request was refused.
C11_Witness ==
    /\ rlast.op = "admin_stop_recording"
    /\ rlast.status = 400
    /\ rlast.error = "Keine Aufnahme läuft"
    /\ ~camera.is_recording
    /\ current_recording # <<>>
    /\ uploaded # {}
    /\ gps.is_connected

\* C12: after every startup of the credential store, whatever rows earlier
\* runs left (a run with other configured admin passwords included),
\* check_user as Admin_G and as Admin_D with the currently configured
\* password succeeds and reports the admin flag.
C12_StartupResyncsAdmins ==
    [][ \A pwG \in AdminPasswords, pwD \in AdminPasswords :
          Startup(pwG, pwD) =>
             /\ pwG # <<>> =>
                   check_user(users', Admin_G, pwG) = [ok |-> TRUE, admin |-> TRUE]
             /\ pwD # <<>> =>
                   check_user(users', Admin_D, pwD) = [ok |-> TRUE, admin |-> TRUE]
      ]_vars

(***************************************************************************)
(* C13: in the AuthManager store, once constructed, the records Admin_G    *)
(* and Admin_D exist with is_admin true, and no management call            *)
(* (create_user without force_create, delete_user, change_password,        *)
(* update_user_email) deletes them or changes their password hash, admin   *)
(* flag or e-mail.  Every step of SpecAM taken after construction is one   *)
(* of these calls.                                                         *)
(***************************************************************************)
C13_DefaultAdminsImmutable ==
    [][ am_constructed =>
           \A n \in {"Admin_G", "Admin_D"} :
              \E q \in am_users, r \in am_users' :
                 /\ q.username = n /\ r.username = n
                 /\ r.is_admin
                 /\ r.password_hash = q.password_hash
                 /\ r.email = q.email ]_vars

C15_NoFrameTwice ==
    \A t \in 1..NumTracks :
       (Len(got[t]) = 2 /\ got[t][1][1] >= 1) => got[t][1] # got[t][2]

(***************************************************************************)
(* C16: POST /login answers 202 if and only if the credentials match a     *)
(* record with the admin flag, 200 if and only if they match a non-admin   *)
(* record, and 403 otherwise; on 200/202 the issued token carries the      *)
(* submitted username and the record's is_admin value.                     *)
(***************************************************************************)
C16_LoginStatus ==
    [][ \A username \in {<<"b">>, Admin_G}, password \in {<<"p", "1">>, <<"a", "1">>} :
          Login(username, password) =>
             LET match == {k \in DOMAIN users :
                             /\ fernet_decrypt(users[k].username) = username
                             /\ users[k].password_hash = hash_pw(password)}
             IN  /\ alast'.op = "login"
                 /\ alast'.status = 202 <=> \E k \in match : users[k].is_admin # 0
                 /\ alast'.status = 200 <=> \E k \in match : users[k].is_admin = 0
                 /\ alast'.status = 403 <=> match = {}
                 /\ alast'.status \in {200, 202} =>
                       \E tk \in issued' :
                          /\ tk.at = now
                          /\ tk.token.payload.user = username
                          /\ tk.token.payload.is_admin = (alast'.status = 202)
                 /\ alast'.status = 403 => issued' = issued ]_vars

\* C16 witness: an administrator has logged in with 202 and holds a token
\* carrying the name and the admin flag.
C16_Witness ==
    /\ alast.op = "login" /\ alast.status = 202
    /\ \E tk \in issued : /\ tk.token.payload.user = Admin_G
                          /\ tk.token.payload.is_admin

(***************************************************************************)
(* C17: POST /register with a username that already exists (compared       *)
(* ignoring case) is rejected with 409 and leaves the users table          *)
(* unchanged; with a username that does not exist it adds exactly one      *)
(* record, with is_admin = 0, and returns 200.                             *)
(***************************************************************************)
C17_RegisterRejectsExisting ==
    [][ \A username \in UserNames, password \in RegisterPasswords :
          Register(username, password) =>
             IF \E k \in DOMAIN users :
                   lower(fernet_decrypt(users[k].username)) = lower(username)
             THEN /\ ulast'.op = "register" /\ ulast'.status = 409
                  /\ users' = users
             ELSE /\ ulast'.op = "register" /\ ulast'.status = 200
                  /\ Len(users') = Len(users) + 1
                  /\ SubSeq(users', 1, Len(users)) = users
                  /\ fernet_decrypt(users'[Len(users')].username) = username
                  /\ users'[Len(users')].password_hash = hash_pw(password)
                  /\ users'[Len(users')].is_admin = 0 ]_vars

\* C17 witness: a registration was refused with 409 for a name that
\* differs from the stored one only in case (no row is named b, the one
\* other name registrations submit).
C17_Witness ==
    /\ ulast.op = "register" /\ ulast.status = 409
    /\ \A k \in DOMAIN users : lower(fernet_decrypt(users[k].username)) # <<"b">>
    /\ \E k \in DOMAIN users : fernet_decrypt(users[k].username) = Admin_G

(***************************************************************************)
(* C18: when JWT_SECRET or JWT_EXPIRE_MINUTES is missing from the          *)
(* environment, startup ends in a fatal error: the server never starts,    *)
(* and never issues or verifies a token with a built-in default secret or  *)
(* expiry.                                                                 *)
(***************************************************************************)
C18_MissingEnvIsFatal ==
    environ # {"JWT_SECRET", "JWT_EXPIRE_MINUTES"} =>
       /\ ~started
       /\ issued = {}
       /\ alast.op = "none"

(***************************************************************************)
(* C19: AuthManager.verify_session(t) returns user information only while  *)
(* t is the session token currently stored for the user who logged in      *)
(* with it and the current time does not exceed its expiry (2 hours after  *)
(* login for a non-admin); a token never issued yields None; and after     *)
(* logout_user(t), or after one verification made past the expiry,         *)
(* verify_session(t) returns None in every later state.                    *)
(***************************************************************************)
C19_SessionValidity ==
    \A k \in 0..MaxSessions :
       LET v == verify_session(am_users, <<k>>, am_now).ret
       IN  /\ v # <<>> =>
                /\ k \in 1..Len(am_issued)
                /\ v[1].username = am_issued[k].user
                /\ \E r \in am_users : /\ r.username = am_issued[k].user
                                       /\ r.session_token = <<k>>
                /\ ~am_issued[k].is_admin => am_now <= am_issued[k].at + 2
           /\ k \in am_dead => v = <<>>

\* C19 witness: a non-admin's token was verified past its expiry and None
\* came back.
C19_Witness ==
    /\ am_last.op = "verify_session"
    /\ am_last.arg # <<>>
    /\ am_last.ret = <<>>
    /\ am_last.arg[1] \in 1..Len(am_issued)
    /\ am_last.arg[1] \in am_dead
    /\ ~am_issued[am_last.arg[1]].is_admin
    /\ am_now > am_issued[am_last.arg[1]].at + 2

(***************************************************************************)
(* C20: POST /webrtc/close issued by one client closes and removes only    *)
(* the WebRTC connections of that client: a peer connection opened by a    *)
(* different logged-in user is still open and still in peer_connections    *)
(* after the call.                                                         *)
(***************************************************************************)
C20_CloseOnlyOwn ==
    [][ \A user \in {"a", "b"} :
          webrtc_close(<<user>>) =>
             \A pc \in peer_connections :
                rtc_pc[pc].owner # user =>
                   /\ pc \in peer_connections'
                   /\ rtc_pc'[pc].connectionState = rtc_pc[pc].connectionState ]_vars

C22_ExclusiveAndObtainable ==
    /\ ~(lock = "worker" /\ \E t \in 1..NumTracks : track[t].pc # "idle")
    /\ \A t \in 1..NumTracks :
          \A i \in 1..Len(got[t]) : got[t][i][1] = got[t][i][2]
    /\ worker.pc \in {"exited", "terminated"} => lock # "worker"

(***************************************************************************)
(* C23: whenever update_user returns failure (not_found, admin_locked or   *)
(* name_exists), the users table is unchanged; in particular a call that   *)
(* supplies both a colliding new_username and a new_password changes       *)
(* neither the username nor the password hash.                             *)
(***************************************************************************)
C23_FailedUpdateWritesNothing ==
    \A user_id \in UserIds, new_username \in {<<>>, <<"b">>, Admin_G},
       new_password \in {<<>>, <<"p", "2">>} :
       LET r == update_user(users, user_id, new_username, new_password)
       IN  ~r.ret[1] => /\ r.tbl = users
                        /\ r.ret[2] \in {"not_found", "admin_locked", "name_exists"}

\* C23 witness: an update of an ordinary user was refused with 409 because
\* the new name is taken.
C23_Witness ==
    /\ ulast.op = "admin_update" /\ ulast.status = 409
    /\ ulast.called /\ ulast.target = "user"

\* C24: requests to /register, /admin/update and /admin/delete that are in
\* flight together are answered as if handled one after the other: each is
\* answered from the table as the requests completed before it left it, so
\* a register of a name some row already has (ignoring case) is refused and
\* adds no row, no step leaves two rows with the same name, and an update
\* answers 200 only for a row that is in the table before and after it.
C24_RequestsSerialized ==
    [][\A req \in inflight :
          Resume(req) =>
             /\ C7_NamesUniqueIgnoringCase => C7_NamesUniqueIgnoringCase'
             /\ (req.op = "register" /\ username_exists(users, req.username))
                   => (ulast'.status = 409 /\ users' = users)
             /\ (req.op = "admin_update" /\ ulast'.status = 200)
                   => /\ RowIndex(users, req.id[1]) # 0
                      /\ RowIndex(users', req.id[1]) # 0
             /\ (req.op # "register" /\ RowIndex(users, req.id[1]) = 0)
                   => (ulast'.status = 404 /\ users' = users)]_vars

\* C24 case: an update of a row was answered 404 while a register is still
\* suspended: the row was deleted by a request that was in flight with it.
C24_Witness ==
    /\ ulast.op = "admin_update" /\ ulast.status = 404
    /\ next_id > 2
    /\ \E req \in inflight : req.op = "register"

\* C25: upload_file and _send_email enter at most retry_count attempts,
\* return success only from an attempt that succeeded, and return failure
\* for a file that exists / a message only when all retry_count attempts
\* have been made.
C25_FailureOnlyAfterExhaustion ==
    /\ sftp.attempt <= retry_count /\ mail.attempt <= retry_count
    /\ (sftp.ret = <<FALSE>> /\ sftp.pc = "returned" /\ sftp.attempt > 0)
          => sftp.attempt = retry_count
    /\ (mail.ret = <<FALSE>> /\ mail.pc = "returned")
          => mail.attempt = retry_count

\* C26: once camera.stop_recording has succeeded, a stop request is answered
\* 200 with the recording's stats whatever the GPS step and the upload met:
\* tracking is off afterwards, the stats are stored with current_recording,
\* and an upload that succeeds is made also when the GPS step failed.
C26_SinkFailuresDoNotCancel ==
    [][ \A raises \in BOOLEAN, upload \in {"off", "ok", "failed"},
           gps_step \in {"ok", "stop_failed", "export_failed"} :
          (/\ stop_recording(camera, raises).ret[1]
           /\ AdminStopRecording("admin", raises, upload, gps_step))
          => /\ rlast'.op = "admin_stop_recording" /\ rlast'.status = 200
             /\ ~gps'.is_tracking
             /\ current_recording # <<>> =>
                   /\ current_recording'[1].stats
                   /\ upload = "ok" => current_recording[1].path \in uploaded'
      ]_vars

\* C26 case: a stop request for a recording with GPS tracking was answered
\* 200 with the stats stored although the recording was not uploaded.
C26_Witness ==
    /\ rlast.op = "admin_stop_recording" /\ rlast.status = 200
    /\ current_recording # <<>>
    /\ current_recording[1].stats
    /\ current_recording[1].path \notin uploaded
    /\ gps.is_connected /\ ~gps.is_tracking /\ ~camera.is_recording

\* C27: whenever no start or stop request is inside its handler, GPS
\* tracking runs only while the camera is recording; in particular a start
\* request answered 500 and a stop request answered 400 leave tracking off
\* unless a recording is running.
C27_TrackingOnlyWhileRecording ==
    ~recording_lock.held => (gps.is_tracking => camera.is_recording)

\* C28: camera.is_recording changes only in a step of the start or the stop
\* handler, which hold recording_lock, and while a start request is inside
\* its handler with the lock held no other request changes the flag or
\* closes the camera.
C28_FlagChangesUnderLock ==
    [][ /\ camera'.is_recording # camera.is_recording
             => rlast'.op \in {"admin_start_recording", "admin_stop_recording"}
        /\ recording_lock.held
             => (camera'.is_recording = camera.is_recording /\ camera'.hw = camera.hw)
      ]_vars

\* C29 (as the code has it): a start request of an admin that finds the free
\* space below the warning threshold starts nothing (the camera's recording
\* state, current_recording and the GPS tracking state stay as they were);
\* it is answered 507, or 400 when a recording is already running, which the
\* handler tests first.
C29_LowDiskStartsNothing ==
    [][ \A raises \in BOOLEAN :
          AdminStartRecordingBegin("admin", "warning", raises)
          => /\ UNCHANGED <<camera, current_recording, gps>>
             /\ rlast'.op = "admin_start_recording"
             /\ rlast'.status = IF current_recording # <<>> /\ camera.is_recording
                                 THEN 400 ELSE 507
      ]_vars

\* C29 case: after a recording was made and stopped, a start request met a
\* full disk and was answered 507 with nothing started.
C29_Witness ==
    /\ rlast.op = "admin_start_recording" /\ rlast.status = 507
    /\ current_recording # <<>>
    /\ ~camera.is_recording /\ ~gps.is_tracking /\ gps.is_connected

\* C29 as stated: every start request of an admin that finds the free space
\* below the warning threshold is answered 507.
C29_AsStated ==
    [][ \A raises \in BOOLEAN :
          AdminStartRecordingBegin("admin", "warning", raises)
          => (rlast'.status = 507 /\ UNCHANGED <<camera, current_recording, gps>>)
      ]_vars

\* C30: at the step of on_shutdown that stops the capture processes every
\* peer connection made has been closed and pcs is empty, and once
\* on_shutdown has finished pcs is empty and both capture processes are
\* stopped.
C30_PeersClosedBeforeCapture ==
    [][ /\ (shut = "running" /\ cm' = stop_all(cm) /\ shut' = "closing")
             => (pcs = {} /\ \A i \in Peers : peer[i].alloc => peer[i].isClosed)
        /\ shut' = "done"
             => /\ pcs' = {}
                /\ cm'.camera_right_proc = None /\ cm'.camera_left_proc = None
      ]_vars

\* C31: a capture worker whose sensor opened ends only on the stop signal:
\* while stop_event is not set it is never found dead, whatever a single
\* frame acquisition did.
C31_ProducerSurvivesFrameError ==
    (worker.pc \in {"capture_failed", "exited"}) => camproc # "started"

\* C32: a capture worker never ends because its sensor failed to open: it
\* goes on as the test pattern's loop does, also when the test_pattern flag
\* was not set.
C32_PatternWhenSensorFails ==
    worker.pc # "open_failed"

\* C33: while the server runs, _vr_clients is the number of stereo requests
\* whose acquire_vr has run and whose release_vr has not, and the secondary
\* capture process is running while there is such a request.
C33_CountMatchesHolders ==
    shut = "running" =>
       LET holders == {i \in Peers : peer[i].acquired = 1 /\ peer[i].released = 0}
       IN  /\ cm.vr_clients = Cardinality(holders)
           /\ holders # {} => cm.camera_left_proc # None

\* C34: the thread of the event loop is never stopped in an acquire of
\* webrtc_lock while the lock is held by the webrtc_close coroutine
\* suspended on that loop, so webrtc_close always gets to release it.
C34_CloseNeverDeadlocks ==
    ~rtc_loop.blocked

\* C35: every point of track_points was appended by the loop thread that
\* the latest start_tracking made: a thread of an earlier start never
\* appends to the track of a later one.
C35_OneLoopAppends ==
    \A k \in gpsctl.track_points : k = Len(gpsctl.loops)

\* C36: of the session tokens issued to one user at most one is valid at any
\* time: once a later login of the user has succeeded, verify_session
\* returns None for the token of every earlier login.
C36_OneSessionPerUser ==
    \A k, j \in 1..Len(am_issued) :
       (k < j /\ am_issued[k].user = am_issued[j].user)
          => verify_session(am_users, <<k>>, am_now).ret = <<>>

\* C36 case: an administrator logged in twice; the first token, neither
\* logged out nor expired, was verified and None came back, while the
\* second token is valid.
C36_Witness ==
    /\ Len(am_issued) >= 2
    /\ am_issued[1].user = am_issued[2].user /\ am_issued[1].is_admin
    /\ am_last.op = "verify_session" /\ am_last.arg = <<1>> /\ am_last.ret = <<>>
    /\ 1 \notin am_dead
    /\ verify_session(am_users, <<2>>, am_now).ret # <<>>

\* C37: what require_auth decides is fixed by the Authorization header, the
\* secret and the clock, never by the credential store: offer lets a request
\* through exactly when its header carries a token that is signed with
\* JWT_SECRET and not expired, and every issued token passes require_auth
\* until its exp, whether or not the store still has its user or still has
\* the password the user logged in with.
C37_StoreNeverConsulted ==
    /\ alast.op = "offer" =>
          /\ alast.ran <=> alast.cred \in {"admin", "not_admin"}
          /\ alast.status = 401 <=> ~alast.ran
    /\ \A e \in issued :
          (require_auth(<<Lit("Bearer"), Jwt(e.token)>>, FALSE, now) # <<>>)
             <=> ~jwt_expired(e.token.payload.exp, now)

\* C37: offer has let through the token of a user that admin_delete removed
\* from the store after the login.
C37_Witness ==
    /\ alast.op = "offer" /\ alast.ran /\ alast.cred = "not_admin"
    /\ ulast.op = "admin_delete" /\ ulast.status = 200
    /\ \E e \in issued :
          /\ e.token.payload.user = <<"b">>
          /\ ~username_exists(users, e.token.payload.user)

\* C38: for every layout the sensor can deliver and every color_convert
\* mode, the array the worker's loop hands to np.copyto has the shape
\* (height, width, 3).
C38_PipelineYieldsTargetShape ==
    conv.frame # <<>> => conv.out = <<conv.height, conv.width, 3>>

\* C39: a start request that begins a recording after an earlier recording
\* was stopped writes to a path different from the earlier recording's,
\* whatever the time between the two.
C39_SuccessiveStartsDiffer ==
    [][(~ractive.on /\ ractive'.on /\ ractive.path # <<>>)
          => ractive'.path # ractive.path]_vars

====
